---- MODULE Spec2Model ----
(***************************************************************************)
(* The week planner of runcoach-ai (services/ai_planner.py): the AIPlanner *)
(* facade, its deterministic heuristic provider and its remote provider.   *)
(*                                                                         *)
(* Distances are miles in tenths (round(x, 1) yields a whole number of     *)
(* tenths).  A date string "YYYY-MM-DD" is the triple <<y, m, d>> of its   *)
(* fields; strptime rejects a triple that is no calendar date.  A Python   *)
(* value of open type (None, a number, a string) is a tagged record.       *)
(***************************************************************************)
EXTENDS Integers, Sequences, FiniteSets, TLC

(***************************************************************************)
(* Bounds of the model.                                                    *)
(***************************************************************************)
\* longest week_dates list drawn freely (with repeats and malformed dates)
MaxWeekLen == 2
\* longest recent_workouts list
MaxHistLen == 2
\* largest ctx.max_days_per_week drawn
MaxDaysCap == 5
\* longest array in a remote response
MaxRespLen == 2

\* the longest text of an API key
MaxKeyLen == 3

\* the most rows the workouts table is given
MaxWorkoutId == 2

\* the most ids the workout_templates table hands out
MaxTemplateId == 3

\* the most colon-separated fields of a typed time
MaxTimeParts == 4

\* the most workout ids the calendar hands out, and the most logged calls
MaxCalendarId == 3

MaxApiCalls == 2

(***************************************************************************)
(* State.  use_openai, api_key, model: the AIPlanner's _use_openai,        *)
(* _api_key and _model.  OPENAI_AVAILABLE: the module's _OPENAI_AVAILABLE, *)
(* fixed at import.  call: the last plan_week call, its arguments and what *)
(* it handed back.  pinned: one earlier call an observer keeps to compare  *)
(* later calls with; between: a call with other arguments followed it.     *)
(***************************************************************************)
VARIABLES use_openai, api_key, model, OPENAI_AVAILABLE, call, pinned, between,
          workouts, workout_templates, app_settings, api_calls, sqlite_sequence,
          environ, ret, dialog

vars == <<use_openai, api_key, model, OPENAI_AVAILABLE, call, pinned, between,
          workouts, workout_templates, app_settings, api_calls, sqlite_sequence,
          environ, ret, dialog>>

\* the tables of the database file, with the AUTOINCREMENT counters
database == <<workouts, workout_templates, app_settings, api_calls, sqlite_sequence>>

\* everything outside the planner object
others == <<database, environ, ret, dialog>>

observer == <<pinned, between>>

config == <<use_openai, api_key, model, OPENAI_AVAILABLE>>

(***************************************************************************)
(* Python values: None, numbers, strings.                                  *)
(***************************************************************************)
NoneV == [kind |-> "none", num |-> 0, str |-> ""]

NumV(n) == [kind |-> "num", num |-> n, str |-> ""]

StrV(s) == [kind |-> "str", num |-> 0, str |-> s]

\* Python truthiness: None, 0 and "" are falsy
Truthy(v) ==
  CASE v.kind = "none" -> FALSE
    [] v.kind = "num" -> v.num # 0
    [] v.kind = "str" -> v.str # ""

\* a or b
PyOr(a, b) == IF Truthy(a) THEN a ELSE b

\* dict.get(k): None when the key is absent
DictGet(r, k) == IF k \in DOMAIN r THEN r[k] ELSE NoneV

\* str.lower() on the strings the planner meets
Lower(s) ==
  CASE s = "Monday" -> "monday"
    [] s = "Tuesday" -> "tuesday"
    [] s = "Wednesday" -> "wednesday"
    [] s = "Thursday" -> "thursday"
    [] s = "Friday" -> "friday"
    [] s = "Saturday" -> "saturday"
    [] s = "Sunday" -> "sunday"
    [] s = "SUNDAY" -> "sunday"
    [] s = "Tempo" -> "tempo"
    [] s = "Rest" -> "rest"
    [] s = "LONG" -> "long"
    [] OTHER -> s

(***************************************************************************)
(* _weekday_index: datetime.strptime(date_str, "%Y-%m-%d").weekday()       *)
(***************************************************************************)
IsLeap(y) == (y % 4 = 0) /\ ((y % 100 # 0) \/ (y % 400 = 0))

DaysInMonth(y, m) ==
  IF m = 2 THEN (IF IsLeap(y) THEN 29 ELSE 28)
  ELSE IF m \in {4, 6, 9, 11} THEN 30 ELSE 31

\* strptime raises ValueError on anything that is not a calendar date
IsValidDate(d) ==
  /\ Len(d) = 3
  /\ d[1] \in 1..9999
  /\ d[2] \in 1..12
  /\ d[3] \in 1..DaysInMonth(d[1], d[2])

RECURSIVE DaysBeforeMonth(_, _)
DaysBeforeMonth(y, m) ==
  IF m = 1 THEN 0 ELSE DaysBeforeMonth(y, m - 1) + DaysInMonth(y, m - 1)

\* date.toordinal(): 0001-01-01 is day 1
ToOrdinal(d) ==
  LET y1 == d[1] - 1
  IN  y1 * 365 + (y1 \div 4) - (y1 \div 100) + (y1 \div 400)
      + DaysBeforeMonth(d[1], d[2]) + d[3]

\* WeekdayIndex with the fault of counting from Sunday: 0 = Sunday ... 6 = Saturday
WeekdayIndexSundayFirst(d) == ToOrdinal(d) % 7

\* 0 = Monday ... 6 = Sunday; defined on valid dates, ValueError otherwise
WeekdayIndex(d) == (ToOrdinal(d) + 6) % 7

weekday_names ==
  <<"monday", "tuesday", "wednesday", "thursday", "friday", "saturday", "sunday">>

(***************************************************************************)
(* WorkoutSuggestion and the usage dict                                    *)
(***************************************************************************)
WorkoutSuggestion(date, workout_type, planned_distance, planned_intensity, description) ==
  [date |-> date, workout_type |-> workout_type,
   planned_distance |-> planned_distance,
   planned_intensity |-> planned_intensity, description |-> description]

\* WorkoutSuggestion(d, "rest"): the dataclass defaults leave the rest None
RestSuggestion(d) == WorkoutSuggestion(d, "rest", NoneV, NoneV, NoneV)

HeuristicUsage ==
  [prompt_tokens |-> NoneV, completion_tokens |-> NoneV, total_tokens |-> NoneV,
   estimated_cost_usd |-> NoneV, model |-> "heuristic"]

\* what a provider hands back: the pair (suggestions, usage), or an exception
Returned(suggestions, usage) ==
  [error |-> "", suggestions |-> suggestions, usage |-> usage]

Raised(exc) == [error |-> exc, suggestions |-> <<>>, usage |-> HeuristicUsage]

(***************************************************************************)
(* _plan_heuristic                                                         *)
(***************************************************************************)
\* round(p / q) for p >= 0, q > 0, a tie going to the even neighbour.
\* Distances are exact rationals in tenths of a mile; Python rounds the
\* binary float, which differs from this only at exact ties (avg 5.5, 1.5),
\* and no history drawn from HistoryRecords (4.0 and 5.0 miles) gives one.
RoundHalfEven(p, q) ==
  LET f == p \div q
      r == p % q
  IN  IF 2 * r < q THEN f
      ELSE IF 2 * r > q THEN f + 1
      ELSE IF f % 2 = 0 THEN f ELSE f + 1

\* d = r.get("actual_distance") or r.get("planned_distance")
RecordDistance(r) == PyOr(DictGet(r, "actual_distance"), DictGet(r, "planned_distance"))

\* isinstance(d, (int, float))
IsNumber(v) == v.kind = "num"

\* Distances with the fault of counting a record without a number as 0.0
RECURSIVE DistancesZeroFill(_)
DistancesZeroFill(recent_workouts) ==
  IF recent_workouts = <<>> THEN [s |-> 0, n |-> 0]
  ELSE LET rest == DistancesZeroFill(Tail(recent_workouts))
           d == RecordDistance(Head(recent_workouts))
       IN  [s |-> rest.s + (IF IsNumber(d) THEN d.num ELSE 0), n |-> rest.n + 1]

\* the list distances, kept as its sum (tenths of a mile) and its length
RECURSIVE Distances(_)
Distances(recent_workouts) ==
  IF recent_workouts = <<>> THEN [s |-> 0, n |-> 0]
  ELSE LET rest == Distances(Tail(recent_workouts))
           d == RecordDistance(Head(recent_workouts))
       IN  IF IsNumber(d) THEN [s |-> rest.s + d.num, n |-> rest.n + 1] ELSE rest

\* avg = sum(distances) / len(distances) if distances else 3.0, as the
\* fraction s / n of tenths of a mile
Avg(recent_workouts) ==
  LET ds == Distances(recent_workouts)
  IN  IF ds.n > 0 THEN ds ELSE [s |-> 30, n |-> 1]

\* round(min(avg * 1.7, 12.0), 1)
LongDistance(avg) ==
  IF 17 * avg.s >= 120 * 10 * avg.n THEN 120
  ELSE RoundHalfEven(17 * avg.s, 10 * avg.n)

\* round(max(avg, 3.0), 1)
IntervalsDistance(avg) ==
  IF avg.s >= 30 * avg.n THEN RoundHalfEven(avg.s, avg.n) ELSE 30

\* round(max(avg, 3.5), 1)
TempoDistance(avg) ==
  IF avg.s >= 35 * avg.n THEN RoundHalfEven(avg.s, avg.n) ELSE 35

\* round(max(avg * 0.8, 2.5), 1)
EasyDistance(avg) ==
  IF 8 * avg.s >= 25 * 10 * avg.n THEN RoundHalfEven(8 * avg.s, 10 * avg.n) ELSE 25

\* long_day = (ctx.long_run_day or "Sunday").lower()
LongDay(ctx) == Lower(PyOr(ctx.long_run_day, StrV("Sunday")).str)

\* HeuristicDay with the fault of a missing day-count cap: a pattern day
\* trains whatever used_days is
HeuristicDayNoCap(ctx, avg, d, used_days) ==
  LET name == weekday_names[WeekdayIndex(d) + 1]
      dist == IF name = LongDay(ctx) THEN LongDistance(avg)
              ELSE IF name = "tuesday" THEN IntervalsDistance(avg)
              ELSE IF name = "thursday" THEN TempoDistance(avg)
              ELSE EasyDistance(avg)
      type == IF name = LongDay(ctx) THEN "long"
              ELSE IF name = "tuesday" THEN "intervals"
              ELSE IF name = "thursday" THEN "tempo"
              ELSE "easy"
  IN  IF name = LongDay(ctx) \/ name \in {"tuesday", "thursday", "saturday"}
        THEN [used_days |-> used_days + 1,
              s |-> WorkoutSuggestion(d, type, NumV(dist), NoneV, NoneV)]
      ELSE [used_days |-> used_days, s |-> RestSuggestion(d)]

\* HeuristicDay with the fault of a long run that tapers as the dates go
\* by: a tenth of a mile less for every day of the month
HeuristicDayTapers(ctx, avg, d, used_days) ==
  LET name == weekday_names[WeekdayIndex(d) + 1]
  IN  IF name = LongDay(ctx) /\ used_days < ctx.max_days_per_week
        THEN [used_days |-> used_days + 1,
              s |-> WorkoutSuggestion(d, "long", NumV(LongDistance(avg) - d[3]),
                      StrV("Z2-3"),
                      StrV("Comfortable long run; keep it conversational."))]
      ELSE IF used_days >= ctx.max_days_per_week
        THEN [used_days |-> used_days, s |-> RestSuggestion(d)]
      ELSE IF name = "tuesday"
        THEN [used_days |-> used_days + 1,
              s |-> WorkoutSuggestion(d, "intervals", NumV(IntervalsDistance(avg)),
                      StrV("5x(3min hard / 2min easy)"),
                      StrV("Quality intervals; warmup/cooldown included."))]
      ELSE IF name = "thursday"
        THEN [used_days |-> used_days + 1,
              s |-> WorkoutSuggestion(d, "tempo", NumV(TempoDistance(avg)),
                      StrV("20-25min comfortably hard"),
                      StrV("Steady tempo; smooth effort."))]
      ELSE IF name = "saturday"
        THEN [used_days |-> used_days + 1,
              s |-> WorkoutSuggestion(d, "easy", NumV(EasyDistance(avg)), StrV("Z1-2"),
                      StrV("Easy shakeout; relaxed form."))]
      ELSE [used_days |-> used_days, s |-> RestSuggestion(d)]

\* one pass of the loop body for a date d that parsed: the suggestion
\* appended and used_days after it
HeuristicDay(ctx, avg, d, used_days) ==
  LET name == weekday_names[WeekdayIndex(d) + 1]
  IN  IF name = LongDay(ctx) /\ used_days < ctx.max_days_per_week
        THEN [used_days |-> used_days + 1,
              s |-> WorkoutSuggestion(d, "long", NumV(LongDistance(avg)), StrV("Z2-3"),
                      StrV("Comfortable long run; keep it conversational."))]
      ELSE IF used_days >= ctx.max_days_per_week
        THEN [used_days |-> used_days, s |-> RestSuggestion(d)]
      ELSE IF name = "tuesday"
        THEN [used_days |-> used_days + 1,
              s |-> WorkoutSuggestion(d, "intervals", NumV(IntervalsDistance(avg)),
                      StrV("5x(3min hard / 2min easy)"),
                      StrV("Quality intervals; warmup/cooldown included."))]
      ELSE IF name = "thursday"
        THEN [used_days |-> used_days + 1,
              s |-> WorkoutSuggestion(d, "tempo", NumV(TempoDistance(avg)),
                      StrV("20-25min comfortably hard"),
                      StrV("Steady tempo; smooth effort."))]
      ELSE IF name = "saturday"
        THEN [used_days |-> used_days + 1,
              s |-> WorkoutSuggestion(d, "easy", NumV(EasyDistance(avg)), StrV("Z1-2"),
                      StrV("Easy shakeout; relaxed form."))]
      ELSE [used_days |-> used_days, s |-> RestSuggestion(d)]

\* HeuristicLoop with the fault of swallowing the parse error: a date that
\* does not parse gets a rest day
RECURSIVE HeuristicLoopSkipsBad(_, _, _, _, _, _)
HeuristicLoopSkipsBad(ctx, avg, week_dates, i, used_days, suggestions) ==
  IF i > Len(week_dates) THEN Returned(suggestions, HeuristicUsage)
  ELSE IF ~IsValidDate(week_dates[i])
    THEN HeuristicLoopSkipsBad(ctx, avg, week_dates, i + 1, used_days,
                               Append(suggestions, RestSuggestion(week_dates[i])))
  ELSE LET step == HeuristicDay(ctx, avg, week_dates[i], used_days)
       IN  HeuristicLoopSkipsBad(ctx, avg, week_dates, i + 1, step.used_days,
                                 Append(suggestions, step.s))

\* the loop over week_dates from position i on, with the suggestions and
\* used_days built so far; _weekday_index raises on the first date that
\* does not parse
RECURSIVE HeuristicLoop(_, _, _, _, _, _)
HeuristicLoop(ctx, avg, week_dates, i, used_days, suggestions) ==
  IF i > Len(week_dates) THEN Returned(suggestions, HeuristicUsage)
  ELSE IF ~IsValidDate(week_dates[i]) THEN Raised("ValueError")
  ELSE LET step == HeuristicDay(ctx, avg, week_dates[i], used_days)
       IN  HeuristicLoop(ctx, avg, week_dates, i + 1, step.used_days,
                         Append(suggestions, step.s))

\* PlanHeuristic with the fault of reading the week's first date before the
\* loop: week_dates[0] raises IndexError on an empty list
PlanHeuristicWeekStart(ctx, week_dates, recent_workouts) ==
  IF week_dates = <<>> THEN Raised("IndexError")
  ELSE HeuristicLoop(ctx, Avg(recent_workouts), week_dates, 1, 0, <<>>)

\* PlanHeuristic with the fault of a suggestions list that outlives the
\* call (kept on the instance): each call appends to the last call's list
PlanHeuristicKeepsList(ctx, week_dates, recent_workouts) ==
  HeuristicLoop(ctx, Avg(recent_workouts), week_dates, 1, 0, call.suggestions)

PlanHeuristic(ctx, week_dates, recent_workouts) ==
  HeuristicLoop(ctx, Avg(recent_workouts), week_dates, 1, 0, <<>>)

(***************************************************************************)
(* _plan_with_openai.  The remote service is outside the program: what it  *)
(* does is an outcome drawn by the caller of the action.  An outcome is    *)
(* an exception on the way (client construction, the API call, json.loads) *)
(* or a parsed JSON value with the response's usage object.                *)
(***************************************************************************)
\* _to_float_or_none: float(x), None for None and for whatever float rejects
ToFloatOrNone(x) ==
  CASE x.kind = "none" -> NoneV
    [] x.kind = "num" -> x
    [] x.kind = "str" ->
         (CASE x.str = "6.5" -> NumV(65)
            [] x.str = "10" -> NumV(100)
            [] OTHER -> NoneV)

\* item.get(...) on a value that is no dict, and .lower() on a truthy
\* workout_type that is no string, raise AttributeError
ItemRaises(item) ==
  \/ ~item.is_dict
  \/ Truthy(item.workout_type) /\ item.workout_type.kind # "str"

\* the WorkoutSuggestion built from one item of the response
ItemSuggestion(item) ==
  WorkoutSuggestion(item.date,
                    Lower(PyOr(item.workout_type, StrV("easy")).str),
                    ToFloatOrNone(item.planned_distance),
                    item.planned_intensity,
                    item.description)

\* by_date = {s.date: s for s in suggestions if s.date}; by_date.get(d):
\* of several suggestions with one date the last one stays
ByDateGet(suggestions, d) ==
  LET hits == {j \in 1..Len(suggestions) :
                 suggestions[j].date # <<>> /\ suggestions[j].date = d}
  IN  IF hits = {} THEN RestSuggestion(d)
      ELSE suggestions[CHOOSE j \in hits : \A k \in hits : k <= j]

\* Ordered with the fault of handing the response's list back as it came
OrderedAsGiven(suggestions, week_dates) == suggestions

\* ordered = [by_date.get(d) or WorkoutSuggestion(d, "rest") for d in week_dates]
Ordered(suggestions, week_dates) ==
  [i \in 1..Len(week_dates) |-> ByDateGet(suggestions, week_dates[i])]

\* _MODEL_PRICING.get(model.lower()), in 1e-8 USD per token
ModelPricing(m) ==
  CASE m = "gpt-4o-mini" -> [known |-> TRUE, input |-> 15, output |-> 60]
    [] m = "gpt-4.1-mini" -> [known |-> TRUE, input |-> 30, output |-> 120]
    [] OTHER -> [known |-> FALSE, input |-> 0, output |-> 0]

\* _estimate_cost, in 1e-8 USD
EstimateCost(m, prompt_tokens, completion_tokens) ==
  LET p == ModelPricing(Lower(m))
  IN  IF ~p.known \/ prompt_tokens.kind = "none" \/ completion_tokens.kind = "none"
        THEN NoneV
      ELSE NumV(prompt_tokens.num * p.input + completion_tokens.num * p.output)

\* the usage dict built from resp.usage
RemoteUsage(usage) ==
  LET prompt_toks == IF usage.present
                       THEN PyOr(usage.input_tokens, usage.prompt_tokens) ELSE NoneV
      completion_toks == IF usage.present
                           THEN PyOr(usage.output_tokens, usage.completion_tokens)
                           ELSE NoneV
      total_toks == IF usage.present THEN usage.total_tokens ELSE NoneV
  IN  [prompt_tokens |-> prompt_toks, completion_tokens |-> completion_toks,
       total_tokens |-> total_toks,
       estimated_cost_usd |-> EstimateCost(model, prompt_toks, completion_toks),
       model |-> model]

\* PlanWithOpenai with the fault of by_date[d] in place of by_date.get(d):
\* a requested date the response lacks raises KeyError
PlanWithOpenaiStrict(ctx, week_dates, recent_workouts, outcome) ==
  IF outcome.kind # "json_array" THEN Raised(outcome.kind)
  ELSE IF \E j \in 1..Len(outcome.data) : ItemRaises(outcome.data[j])
    THEN Raised("AttributeError")
  ELSE IF \E i \in 1..Len(week_dates) :
            \A j \in 1..Len(outcome.data) : outcome.data[j].date # week_dates[i]
    THEN Raised("KeyError")
  ELSE Returned(Ordered([j \in 1..Len(outcome.data) |-> ItemSuggestion(outcome.data[j])],
                        week_dates),
                RemoteUsage(outcome.usage))

PlanWithOpenai(ctx, week_dates, recent_workouts, outcome) ==
  IF outcome.kind # "json_array" THEN Raised(outcome.kind)
  ELSE IF \E j \in 1..Len(outcome.data) : ItemRaises(outcome.data[j])
    THEN Raised("AttributeError")
  ELSE Returned(Ordered([j \in 1..Len(outcome.data) |-> ItemSuggestion(outcome.data[j])],
                        week_dates),
                RemoteUsage(outcome.usage))

(***************************************************************************)
(* AIPlanner: __init__, set_config, plan_week                              *)
(***************************************************************************)
\* the remote outcome recorded when the remote provider was not called
NoOutcome ==
  [kind |-> "not_called", data |-> <<>>,
   usage |-> [present |-> FALSE, input_tokens |-> NoneV, prompt_tokens |-> NoneV,
              output_tokens |-> NoneV, completion_tokens |-> NoneV,
              total_tokens |-> NoneV]]

NoCtx == [max_days_per_week |-> 0, long_run_day |-> NoneV]

\* no plan_week call yet
NoCall ==
  [made |-> FALSE, ctx |-> NoCtx, week_dates |-> <<>>, recent_workouts |-> <<>>,
   args_after |-> <<NoCtx, <<>>, <<>>>>, remote_called |-> FALSE,
   outcome |-> NoOutcome, caught |-> "", served_by |-> "",
   error |-> "", suggestions |-> <<>>, usage |-> HeuristicUsage]

\* RemoteSelected with the fault of not looking at _OPENAI_AVAILABLE
RemoteSelectedNoLib == use_openai /\ api_key # ""

\* if self._use_openai and self._api_key and _OPENAI_AVAILABLE
RemoteSelected == use_openai /\ api_key # "" /\ OPENAI_AVAILABLE

\* PlanWeekCall with the fault of no try/except around the remote call:
\* what the remote provider raises reaches the caller
PlanWeekCallNoCatch(ctx, week_dates, recent_workouts, outcome) ==
  LET tried == PlanWithOpenai(ctx, week_dates, recent_workouts, outcome)
      res == IF RemoteSelected THEN tried
             ELSE PlanHeuristic(ctx, week_dates, recent_workouts)
  IN  [made |-> TRUE, ctx |-> ctx, week_dates |-> week_dates,
       recent_workouts |-> recent_workouts,
       args_after |-> <<ctx, week_dates, recent_workouts>>,
       remote_called |-> RemoteSelected,
       outcome |-> IF RemoteSelected THEN outcome ELSE NoOutcome,
       caught |-> "",
       served_by |-> IF RemoteSelected THEN "remote" ELSE "heuristic",
       error |-> res.error, suggestions |-> res.suggestions, usage |-> res.usage]

\* plan_week as its caller sees it: the arguments as the call leaves them,
\* whether the remote provider ran and what it raised, and the result
PlanWeekCall(ctx, week_dates, recent_workouts, outcome) ==
  LET tried == PlanWithOpenai(ctx, week_dates, recent_workouts, outcome)
      caught == RemoteSelected /\ tried.error # ""
      res == IF RemoteSelected /\ ~caught THEN tried
             ELSE PlanHeuristic(ctx, week_dates, recent_workouts)
  IN  [made |-> TRUE, ctx |-> ctx, week_dates |-> week_dates,
       recent_workouts |-> recent_workouts,
       args_after |-> <<ctx, week_dates, recent_workouts>>,
       remote_called |-> RemoteSelected,
       outcome |-> IF RemoteSelected THEN outcome ELSE NoOutcome,
       caught |-> IF caught THEN tried.error ELSE "",
       served_by |-> IF RemoteSelected /\ ~caught THEN "remote" ELSE "heuristic",
       error |-> res.error, suggestions |-> res.suggestions, usage |-> res.usage]

PlanWeek(ctx, week_dates, recent_workouts, outcome) ==
  /\ call' = PlanWeekCall(ctx, week_dates, recent_workouts, outcome)
  /\ UNCHANGED config

SetConfig(u, k, m) ==
  /\ use_openai' = u
  /\ api_key' = PyOr(k, StrV("")).str
  /\ model' = IF Truthy(m) THEN m.str ELSE model
  /\ UNCHANGED <<OPENAI_AVAILABLE, call, observer>>

(***************************************************************************)
(* The values the actions draw from                                        *)
(***************************************************************************)
ApiKeys == {NoneV, StrV(""), StrV("sk-test")}

Models == {"gpt-4o-mini", "gpt-4.1-mini"}

\* the i-th day of January 2024; the 1st is a Monday
WeekDate(i) == <<2024, 1, i>>

\* a string strptime rejects
BadDate == <<2024, 2, 30>>

\* n consecutive dates from day lo on
DateRange(lo, n) == [i \in 1..n |-> WeekDate(lo + i - 1)]

\* every run of up to seven consecutive dates, starting on any weekday: the
\* calendar asks for Sunday to Saturday, other callers for Monday to Sunday
ConsecutiveWeeks ==
  {DateRange(lo, n) : lo \in 1..Len(weekday_names), n \in 0..Len(weekday_names)}

SeqsUpTo(S, n) == UNION {[1..k -> S] : k \in 0..n}

\* short lists in any order, with repeats and a malformed date
FreeWeeks == SeqsUpTo({WeekDate(2), WeekDate(7), BadDate}, MaxWeekLen)

WeekInputs == ConsecutiveWeeks \cup FreeWeeks

LongRunDays == {NoneV, StrV("Sunday"), StrV("Tuesday"), StrV("Wednesday")}

Ctxs == [max_days_per_week : 0..MaxDaysCap, long_run_day : LongRunDays]

\* history records: no distance key at all; a null and a non-numeric one;
\* a completed run; a planned-only run
HistoryRecords ==
  { [workout_type |-> StrV("easy")],
    [workout_type |-> StrV("easy"), actual_distance |-> NoneV,
     planned_distance |-> StrV("n/a")],
    [workout_type |-> StrV("easy"), actual_distance |-> NumV(40),
     planned_distance |-> NumV(60)],
    [workout_type |-> StrV("long"), actual_distance |-> NoneV,
     planned_distance |-> NumV(50)] }

Histories == SeqsUpTo(HistoryRecords, MaxHistLen)

Item(is_dict, date, workout_type, planned_distance) ==
  [is_dict |-> is_dict, date |-> date, workout_type |-> workout_type,
   planned_distance |-> planned_distance, planned_intensity |-> StrV("steady"),
   description |-> NoneV]

\* items of a response: for a requested date, without a date, for a date
\* nobody asked for, a second one for the same date, and two of bad shape
ResponseItems ==
  { Item(TRUE, WeekDate(2), StrV("Tempo"), NumV(50)),
    Item(TRUE, WeekDate(7), NoneV, StrV("6.5")),
    Item(TRUE, <<>>, StrV("long"), NumV(80)),
    Item(TRUE, <<2024, 1, 8>>, StrV("LONG"), StrV("abc")),
    Item(TRUE, WeekDate(2), StrV("Rest"), NoneV),
    Item(FALSE, <<>>, NoneV, NoneV),
    Item(TRUE, WeekDate(2), NumV(5), NumV(50)) }

ResponseUsages ==
  { NoOutcome.usage,
    [present |-> TRUE, input_tokens |-> NumV(1000), prompt_tokens |-> NoneV,
     output_tokens |-> NumV(500), completion_tokens |-> NoneV,
     total_tokens |-> NumV(1500)] }

\* the remote call raises: OpenAI(...), responses.create, json.loads, or
\* iterating a JSON object's keys
RemoteFailures ==
  { [kind |-> k, data |-> <<>>, usage |-> NoOutcome.usage] :
      k \in {"client_error", "api_error", "not_json", "json_object"} }

RemoteArrays(n) ==
  { [kind |-> "json_array", data |-> d, usage |-> u] :
      d \in SeqsUpTo(ResponseItems, n), u \in ResponseUsages }

Outcomes == RemoteFailures \cup RemoteArrays(MaxRespLen)

(***************************************************************************)
(* Text as Python sees it: a sequence of one-character strings             *)
(***************************************************************************)
NoText == [kind |-> "none", text |-> <<>>]

Text(cs) == [kind |-> "str", text |-> cs]

IsSpace(c) == c = " "

\* str.lstrip() and str.rstrip()
RECURSIVE LStrip(_)
LStrip(cs) ==
  IF cs # <<>> /\ IsSpace(Head(cs)) THEN LStrip(Tail(cs)) ELSE cs

RECURSIVE RStrip(_)
RStrip(cs) ==
  IF cs # <<>> /\ IsSpace(cs[Len(cs)]) THEN RStrip(SubSeq(cs, 1, Len(cs) - 1)) ELSE cs

\* str.strip()
Strip(cs) == RStrip(LStrip(cs))

\* (t or "")
TextOrEmpty(t) == IF t.kind = "str" THEN t.text ELSE <<>>

(***************************************************************************)
(* DatabaseManager: the tables init_database creates, and the settings     *)
(***************************************************************************)
\* the rows INSERT OR IGNORE seeds into app_settings
SeededSettings ==
  [units |-> <<"i", "m", "p", "e", "r", "i", "a", "l">>,
   theme |-> <<"l", "i", "g", "h", "t">>,
   api_key |-> <<>>]

\* the database after DatabaseManager(db_path) on a new file
FreshDatabase ==
  /\ workouts = {}
  /\ workout_templates = {}
  /\ app_settings = SeededSettings
  /\ api_calls = <<>>
  /\ sqlite_sequence = [workouts |-> 0, workout_templates |-> 0]

\* no database call has returned yet
NoRet == [op |-> "none"]

\* no CompleteWorkoutDialog is on screen
ClosedDialog ==
  [open |-> FALSE, time_edit |-> <<>>, other_data |-> FALSE, proceed |-> FALSE,
   accepted |-> FALSE, warned |-> FALSE]

\* the planner is exercised alone: nothing else is touched
OnlyPlanner ==
  /\ FreshDatabase
  /\ environ = NoText
  /\ ret = NoRet
  /\ dialog = ClosedDialog

\* SELECT value FROM app_settings WHERE key = ?
GetSetting(settings, key) ==
  IF key \in DOMAIN settings THEN Text(settings[key]) ELSE NoText

\* INSERT ... ON CONFLICT(key) DO UPDATE SET value = excluded.value
SetSetting(settings, key, value) ==
  [k \in DOMAIN settings \cup {key} |-> IF k = key THEN value ELSE settings[k]]

\* get_api_key: env_key = os.environ.get("OPENAI_API_KEY");
\* if env_key: return env_key.strip(); return self.get_setting("api_key")
GetApiKeyOf(env_key, settings) ==
  IF env_key.kind = "str" /\ env_key.text # <<>>
  THEN Text(Strip(env_key.text))
  ELSE GetSetting(settings, "api_key")

GetApiKey ==
  /\ ret' = [op |-> "get_api_key", value |-> GetApiKeyOf(environ, app_settings)]
  /\ UNCHANGED <<config, call, observer, database, environ, dialog>>

\* set_api_key: self.set_setting("api_key", (key or "").strip())
SetApiKey(key) ==
  /\ app_settings' = SetSetting(app_settings, "api_key", Strip(TextOrEmpty(key)))
  /\ ret' = [op |-> "set_api_key", key |-> key]
  /\ UNCHANGED <<config, call, observer, workouts, workout_templates, api_calls,
                 sqlite_sequence, environ, dialog>>

(***************************************************************************)
(* Dates as QDate and SQLite handle them                                   *)
(***************************************************************************)
\* 'YYYY-MM-DD' strings compare as their (year, month, day) do
DateLess(a, b) ==
  \/ a[1] < b[1]
  \/ a[1] = b[1] /\ a[2] < b[2]
  \/ a[1] = b[1] /\ a[2] = b[2] /\ a[3] < b[3]

DateLeq(a, b) == a = b \/ DateLess(a, b)

NextDay(d) ==
  IF d[3] < DaysInMonth(d[1], d[2]) THEN <<d[1], d[2], d[3] + 1>>
  ELSE IF d[2] < 12 THEN <<d[1], d[2] + 1, 1>>
  ELSE <<d[1] + 1, 1, 1>>

PrevDay(d) ==
  IF d[3] > 1 THEN <<d[1], d[2], d[3] - 1>>
  ELSE IF d[2] > 1 THEN <<d[1], d[2] - 1, DaysInMonth(d[1], d[2] - 1)>>
  ELSE <<d[1] - 1, 12, 31>>

\* QDate.addDays
RECURSIVE AddDays(_, _)
AddDays(d, n) ==
  IF n = 0 THEN d
  ELSE IF n > 0 THEN AddDays(NextDay(d), n - 1)
  ELSE AddDays(PrevDay(d), n + 1)

\* QDate.dayOfWeek(): 1 = Monday ... 7 = Sunday
DayOfWeek(d) == WeekdayIndex(d) + 1

\* _current_week_range: the Sunday on or before current_date, and the
\* Saturday after it
CurrentWeekRange(current_date) ==
  LET idx == DayOfWeek(current_date) % 7
      start == AddDays(current_date, 0 - idx)
  IN  <<start, AddDays(start, 6)>>

\* _dates_in_range: while cur <= e: out.append(cur); cur = cur.addDays(1)
RECURSIVE DatesInRange(_, _)
DatesInRange(s, e) ==
  IF DateLeq(s, e) THEN <<s>> \o DatesInRange(NextDay(s), e) ELSE <<>>

(***************************************************************************)
(* DatabaseManager: the workouts table                                     *)
(***************************************************************************)
\* ORDER BY id ASC
RECURSIVE OrderedById(_)
OrderedById(rows) ==
  IF rows = {} THEN <<>>
  ELSE LET first == CHOOSE w \in rows : \A v \in rows : w.id <= v.id
       IN  <<first>> \o OrderedById(rows \ {first})

\* ORDER BY date ASC, id ASC
RECURSIVE OrderedByDateId(_)
OrderedByDateId(rows) ==
  IF rows = {} THEN <<>>
  ELSE LET first == CHOOSE w \in rows : \A v \in rows :
                      DateLess(w.date, v.date) \/ (w.date = v.date /\ w.id <= v.id)
       IN  <<first>> \o OrderedByDateId(rows \ {first})

\* the row INSERT INTO workouts writes; the columns the statement does not
\* name take their defaults (actual_rpe, avg_hr, elevation_gain,
\* completion_notes and the two timestamps are left out of the model)
InsertedWorkout(id, workout_data) ==
  [id |-> id,
   plan_id |-> workout_data.plan_id,
   date |-> workout_data.date,
   version |-> IF "version" \in DOMAIN workout_data THEN workout_data.version ELSE 1,
   is_current_version |->
     IF "is_current_version" \in DOMAIN workout_data
       THEN (IF workout_data.is_current_version # 0 THEN 1 ELSE 0)
     ELSE 1,
   workout_type |-> workout_data.workout_type,
   planned_distance |-> DictGet(workout_data, "planned_distance"),
   planned_intensity |-> DictGet(workout_data, "planned_intensity"),
   description |-> DictGet(workout_data, "description"),
   notes |-> DictGet(workout_data, "notes"),
   completed |-> 0,
   actual_distance |-> NoneV,
   actual_time_seconds |-> NoneV,
   modified_by |-> IF "modified_by" \in DOMAIN workout_data
                     THEN workout_data.modified_by ELSE "user"]

allowed_keys ==
  {"date", "workout_type", "planned_distance", "planned_intensity", "description",
   "notes", "version", "is_current_version", "modified_by"}

\* UpdatedWorkout with the fault of writing every key of data
UpdatedWorkoutAnyKey(w, data) ==
  [f \in DOMAIN w |-> IF f \in DOMAIN data THEN data[f] ELSE w[f]]

\* UPDATE workouts SET k = ? ... for kv = the allowed keys of data
UpdatedWorkout(w, data) ==
  [f \in DOMAIN w |-> IF f \in allowed_keys /\ f \in DOMAIN data THEN data[f] ELSE w[f]]

\* update_workout: nothing is executed when data has no allowed key
WorkoutsAfterUpdate(rows, workout_id, data) ==
  IF DOMAIN data \cap allowed_keys = {} THEN rows
  ELSE {IF w.id = workout_id THEN UpdatedWorkout(w, data) ELSE w : w \in rows}

\* DELETE FROM workouts WHERE id = ?
WorkoutsAfterDelete(rows, workout_id) == {w \in rows : w.id # workout_id}

\* UPDATE workouts SET completed = 1, actual_distance = ?, ... WHERE id = ?
WorkoutsAfterCompletion(rows, workout_id, completion_data) ==
  {IF w.id = workout_id
     THEN [w EXCEPT !.completed = 1,
                    !.actual_distance = DictGet(completion_data, "actual_distance"),
                    !.actual_time_seconds =
                       DictGet(completion_data, "actual_time_seconds")]
   ELSE w : w \in rows}

GetWorkoutsOnDate(rows, plan_id, date_str, current_only) ==
  OrderedById({w \in rows : /\ w.plan_id = plan_id
                            /\ w.date = date_str
                            /\ (current_only => w.is_current_version = 1)})

GetWorkoutsBetweenDates(rows, plan_id, start_date, end_date, current_only) ==
  OrderedByDateId({w \in rows : /\ w.plan_id = plan_id
                                /\ DateLeq(start_date, w.date)
                                /\ DateLeq(w.date, end_date)
                                /\ (current_only => w.is_current_version = 1)})

\* CASE workout_type WHEN 'long' THEN 1 ... ELSE 5 END
TypeRank(workout_type) ==
  CASE workout_type = "long" -> 1
    [] workout_type = "tempo" -> 2
    [] workout_type = "intervals" -> 3
    [] workout_type = "easy" -> 4
    [] OTHER -> 5

\* the rows get_next_key_workout selects from
KeyCandidates(rows, plan_id, from_date) ==
  {w \in rows : /\ w.plan_id = plan_id
                /\ w.is_current_version = 1
                /\ DateLeq(from_date, w.date)
                /\ w.workout_type # "rest"}

\* ORDER BY the type's rank, date ASC, id ASC
KeyBefore(w, v) ==
  \/ TypeRank(w.workout_type) < TypeRank(v.workout_type)
  \/ /\ TypeRank(w.workout_type) = TypeRank(v.workout_type)
     /\ (DateLess(w.date, v.date) \/ (w.date = v.date /\ w.id <= v.id))

\* get_next_key_workout: LIMIT 1; dict(row) if row else None
NextKeyWorkout(rows, plan_id, from_date) ==
  LET found == KeyCandidates(rows, plan_id, from_date)
  IN  IF found = {} THEN [none |-> TRUE, id |-> 0]
      ELSE [none |-> FALSE,
            id |-> (CHOOSE w \in found : \A v \in found : KeyBefore(w, v)).id]

\* create_workout: the new row takes the next AUTOINCREMENT id
CreateWorkout(workout_data) ==
  LET id == sqlite_sequence.workouts + 1
  IN  /\ id <= MaxWorkoutId
      /\ workouts' = workouts \cup {InsertedWorkout(id, workout_data)}
      /\ sqlite_sequence' = [sqlite_sequence EXCEPT !.workouts = id]
      /\ ret' = [op |-> "create_workout", value |-> id]
      /\ UNCHANGED <<config, call, observer, workout_templates, app_settings,
                     api_calls, environ, dialog>>

UpdateWorkout(workout_id, data) ==
  /\ workouts' = WorkoutsAfterUpdate(workouts, workout_id, data)
  /\ ret' = [op |-> "update_workout", workout_id |-> workout_id, data |-> data]
  /\ UNCHANGED <<config, call, observer, workout_templates, app_settings,
                 api_calls, sqlite_sequence, environ, dialog>>

DeleteWorkout(workout_id) ==
  /\ workouts' = WorkoutsAfterDelete(workouts, workout_id)
  /\ ret' = [op |-> "delete_workout", workout_id |-> workout_id]
  /\ UNCHANGED <<config, call, observer, workout_templates, app_settings,
                 api_calls, sqlite_sequence, environ, dialog>>

UpdateWorkoutCompletion(workout_id, completion_data) ==
  /\ workouts' = WorkoutsAfterCompletion(workouts, workout_id, completion_data)
  /\ ret' = [op |-> "update_workout_completion", workout_id |-> workout_id]
  /\ UNCHANGED <<config, call, observer, workout_templates, app_settings,
                 api_calls, sqlite_sequence, environ, dialog>>

GetNextKeyWorkout(plan_id, from_date) ==
  /\ ret' = [op |-> "get_next_key_workout", plan_id |-> plan_id,
             from_date |-> from_date,
             value |-> NextKeyWorkout(workouts, plan_id, from_date)]
  /\ UNCHANGED <<config, call, observer, database, environ, dialog>>

(***************************************************************************)
(* DatabaseManager: the workout_templates table (name TEXT NOT NULL UNIQUE)*)
(***************************************************************************)
\* the row the INSERT branch writes (created_at is left out of the model)
InsertedTemplate(id, tpl) ==
  [id |-> id, name |-> tpl.name, workout_type |-> tpl.workout_type,
   planned_distance |-> DictGet(tpl, "planned_distance"),
   planned_intensity |-> DictGet(tpl, "planned_intensity"),
   description |-> DictGet(tpl, "description"),
   notes |-> DictGet(tpl, "notes")]

\* TemplatesAfterCreate with the fault of a table without the UNIQUE
\* constraint: the statement always inserts
TemplatesAfterCreateNoConflict(rows, id, tpl) ==
  rows \cup {InsertedTemplate(id, tpl)}

\* INSERT ... ON CONFLICT(name) DO UPDATE SET workout_type =
\* excluded.workout_type, ...: the row that holds the name keeps its id
TemplatesAfterCreate(rows, id, tpl) ==
  IF \E t \in rows : t.name = tpl.name
    THEN {IF t.name = tpl.name THEN InsertedTemplate(t.id, tpl) ELSE t : t \in rows}
  ELSE rows \cup {InsertedTemplate(id, tpl)}

\* SELECT id FROM workout_templates WHERE name = ?; row["id"] if row else 0
TemplateIdByName(rows, name) ==
  IF \E t \in rows : t.name = name
    THEN (CHOOSE t \in rows : t.name = name).id
  ELSE 0

\* create_template.  An insert takes the next AUTOINCREMENT id.  An upsert
\* that ends in the UPDATE branch has had a rowid allocated for the row it
\* did not insert, and SQLite may or may not record it in sqlite_sequence
\* (version 3.40 does): consumed says which
CreateTemplate(tpl, consumed) ==
  LET id == sqlite_sequence.workout_templates + 1
      conflict == \E t \in workout_templates : t.name = tpl.name
      rows == TemplatesAfterCreate(workout_templates, id, tpl)
  IN  /\ ~conflict => consumed
      /\ consumed => id <= MaxTemplateId
      /\ workout_templates' = rows
      /\ sqlite_sequence' =
           IF consumed THEN [sqlite_sequence EXCEPT !.workout_templates = id]
           ELSE sqlite_sequence
      /\ ret' = [op |-> "create_template", tpl |-> tpl,
                 value |-> TemplateIdByName(rows, tpl.name)]
      /\ UNCHANGED <<config, call, observer, workouts, app_settings, api_calls,
                     environ, dialog>>

\* DELETE FROM workout_templates WHERE id = ?
DeleteTemplate(template_id) ==
  /\ workout_templates' = {t \in workout_templates : t.id # template_id}
  /\ ret' = [op |-> "delete_template", template_id |-> template_id]
  /\ UNCHANGED <<config, call, observer, workouts, app_settings, api_calls,
                 sqlite_sequence, environ, dialog>>

(***************************************************************************)
(* workout_dialogs: _parse_hhmmss_to_seconds and CompleteWorkoutDialog     *)
(***************************************************************************)
Digits == <<"0", "1", "2", "3", "4", "5", "6", "7", "8", "9">>

IsDigit(c) == \E i \in 1..Len(Digits) : Digits[i] = c

DigitValue(c) == (CHOOSE i \in 1..Len(Digits) : Digits[i] = c) - 1

\* the number a run of decimal digits writes
RECURSIVE Decimal(_)
Decimal(cs) ==
  IF cs = <<>> THEN 0
  ELSE 10 * Decimal(SubSeq(cs, 1, Len(cs) - 1)) + DigitValue(cs[Len(cs)])

\* int(s) for a str: blanks around it are dropped, one sign may lead, and
\* at least one digit must follow; anything else raises ValueError
IntOf(cs) ==
  LET t == Strip(cs)
      signed == t # <<>> /\ Head(t) \in {"-", "+"}
      ds == IF signed THEN Tail(t) ELSE t
      ok == ds # <<>> /\ \A i \in 1..Len(ds) : IsDigit(ds[i])
  IN  [ok |-> ok,
       value |-> IF ~ok THEN 0
                 ELSE IF signed /\ Head(t) = "-" THEN 0 - Decimal(ds)
                 ELSE Decimal(ds)]

\* str.split(":")
RECURSIVE Split(_)
Split(cs) ==
  IF \A i \in 1..Len(cs) : cs[i] # ":" THEN <<cs>>
  ELSE LET k == CHOOSE i \in 1..Len(cs) :
                  cs[i] = ":" /\ \A j \in 1..(i - 1) : cs[j] # ":"
       IN  <<SubSeq(cs, 1, k - 1)>> \o Split(SubSeq(cs, k + 1, Len(cs)))

\* what _parse_hhmmss_to_seconds does with a text: returns None, returns
\* an int, or raises ValueError
ParsedNone == [kind |-> "none", value |-> 0]

ParsedInt(n) == [kind |-> "int", value |-> n]

ParseRaises == [kind |-> "ValueError", value |-> 0]

\* ParseHhmmssToSeconds with the fault of leaving out the 0 <= s < 60 and
\* 0 <= m < 60 tests
ParseHhmmssToSecondsNoRange(text) ==
  LET t == Strip(text)
      parts == Split(t)
      n == [i \in 1..Len(parts) |-> IntOf(parts[i])]
  IN  IF t = <<>> THEN ParsedNone
      ELSE IF Len(parts) > 3 \/ \E i \in 1..Len(parts) : ~n[i].ok THEN ParseRaises
      ELSE IF n[1].value < 0 THEN ParseRaises
      ELSE IF Len(parts) = 1 THEN ParsedInt(n[1].value)
      ELSE IF Len(parts) = 2 THEN ParsedInt(n[1].value * 60 + n[2].value)
      ELSE ParsedInt(n[1].value * 3600 + n[2].value * 60 + n[3].value)

ParseHhmmssToSeconds(text) ==
  LET t == Strip(text)
      parts == Split(t)
      n == [i \in 1..Len(parts) |-> IntOf(parts[i])]
      InMinute(x) == 0 <= x /\ x < 60
  IN  IF t = <<>> THEN ParsedNone
      ELSE IF Len(parts) = 1 THEN
        (IF ~n[1].ok \/ n[1].value < 0 THEN ParseRaises ELSE ParsedInt(n[1].value))
      ELSE IF Len(parts) = 2 THEN
        (IF ~n[1].ok \/ ~n[2].ok \/ n[1].value < 0 \/ ~InMinute(n[2].value)
           THEN ParseRaises
         ELSE ParsedInt(n[1].value * 60 + n[2].value))
      ELSE IF Len(parts) = 3 THEN
        (IF \/ ~n[1].ok \/ ~n[2].ok \/ ~n[3].ok
            \/ n[1].value < 0 \/ ~InMinute(n[2].value) \/ ~InMinute(n[3].value)
           THEN ParseRaises
         ELSE ParsedInt(n[1].value * 3600 + n[2].value * 60 + n[3].value))
      ELSE ParseRaises

\* CompleteWorkoutDialog._on_accept on the OK button: a time that does not
\* parse shows a warning and returns; with nothing entered at all the user
\* is asked whether to proceed; otherwise self.accept()
OnAccept(proceed) ==
  LET parsed == ParseHhmmssToSeconds(dialog.time_edit)
      nothing == ~dialog.other_data /\ Strip(dialog.time_edit) = <<>>
  IN  /\ dialog.open
      /\ ret' = [op |-> "_parse_hhmmss_to_seconds", text |-> dialog.time_edit,
                 value |-> parsed]
      /\ dialog' =
           IF parsed = ParseRaises THEN [dialog EXCEPT !.warned = TRUE]
           ELSE IF nothing /\ ~proceed
             THEN [dialog EXCEPT !.warned = FALSE, !.proceed = FALSE]
           ELSE [dialog EXCEPT !.open = FALSE, !.accepted = TRUE, !.warned = FALSE,
                               !.proceed = nothing]
      /\ UNCHANGED <<config, call, observer, database, environ>>

\* the user types another time into the field
EditTime(text) ==
  /\ dialog.open
  /\ dialog' = [dialog EXCEPT !.time_edit = text, !.warned = FALSE]
  /\ ret' = [op |-> "edit_time"]
  /\ UNCHANGED <<config, call, observer, database, environ>>

\* the Cancel button: self.reject
Reject ==
  /\ dialog.open
  /\ dialog' = [dialog EXCEPT !.open = FALSE, !.warned = FALSE]
  /\ ret' = [op |-> "reject"]
  /\ UNCHANGED <<config, call, observer, database, environ>>

(***************************************************************************)
(* CalendarView: recalculate_week and _apply_week_suggestions              *)
(***************************************************************************)
\* PlanContext(...) as recalculate_week builds it from the plan's row
CtxOfPlan(p) ==
  [max_days_per_week |-> PyOr(p.max_days_per_week, NumV(5)).num,
   long_run_day |-> PyOr(p.long_run_day, StrV("Sunday"))]

\* _recent_completed_workouts(weeks=3): the plan's current workouts of the
\* three weeks up to today that are completed
RecentCompletedWorkouts(rows, plan_id, today) ==
  LET Completed(w) == w.completed # 0
  IN  SelectSeq(GetWorkoutsBetweenDates(rows, plan_id, AddDays(today, 0 - 21), today, TRUE),
                Completed)

\* for w in existing: self.db_manager.delete_workout(w["id"])
RECURSIVE DeleteEach(_, _)
DeleteEach(rows, existing) ==
  IF existing = <<>> THEN rows
  ELSE DeleteEach(WorkoutsAfterDelete(rows, Head(existing).id), Tail(existing))

\* ClearWeek with the fault of a DELETE by date alone: the week is cleared
\* for every plan
ClearWeekAnyPlan(rows, pid, week_dates) ==
  { w \in rows : \A i \in 1..Len(week_dates) : w.date # week_dates[i] }

\* ClearWeek with the fault of sparing the workouts already completed
RECURSIVE ClearWeekKeepsCompleted(_, _, _)
ClearWeekKeepsCompleted(rows, pid, week_dates) ==
  IF week_dates = <<>> THEN rows
  ELSE LET NotDone(w) == w.completed = 0
       IN  ClearWeekKeepsCompleted(
             DeleteEach(rows, SelectSeq(GetWorkoutsOnDate(rows, pid, Head(week_dates), TRUE),
                                        NotDone)),
             pid, Tail(week_dates))

\* for d in week_dates: existing = get_workouts_on_date(pid, d); delete them
RECURSIVE ClearWeek(_, _, _)
ClearWeek(rows, pid, week_dates) ==
  IF week_dates = <<>> THEN rows
  ELSE ClearWeek(DeleteEach(rows, GetWorkoutsOnDate(rows, pid, Head(week_dates), TRUE)),
                 pid, Tail(week_dates))

\* for s in suggestions: skip 'rest', create_workout({...}) with the next id
RECURSIVE InsertSuggestions(_, _, _, _)
InsertSuggestions(rows, last_id, pid, suggestions) ==
  IF suggestions = <<>> THEN [rows |-> rows, last_id |-> last_id]
  ELSE LET s == Head(suggestions)
       IN  IF Lower(s.workout_type) = "rest"
             THEN InsertSuggestions(rows, last_id, pid, Tail(suggestions))
           ELSE InsertSuggestions(
                  rows \cup {InsertedWorkout(last_id + 1,
                               [plan_id |-> pid, date |-> s.date,
                                workout_type |-> s.workout_type,
                                planned_distance |-> s.planned_distance,
                                planned_intensity |-> s.planned_intensity,
                                description |-> s.description,
                                notes |-> NoneV, modified_by |-> "ai_recalc"])},
                  last_id + 1, pid, Tail(suggestions))

\* _apply_week_suggestions
ApplyWeekSuggestions(rows, last_id, pid, week_dates, suggestions) ==
  InsertSuggestions(ClearWeek(rows, pid, week_dates), last_id, pid, suggestions)

\* the api_calls row recalculate_week logs: usage is a dict with five keys,
\* which is truthy whatever the keys hold
LoggedCall(pid, usage) ==
  [plan_id |-> pid, call_type |-> "plan_week",
   tokens_used |-> PyOr(usage.prompt_tokens, NumV(0)).num
                     + PyOr(usage.completion_tokens, NumV(0)).num,
   cost_usd |-> usage.estimated_cost_usd]

\* get_api_totals()["calls"]: SELECT COUNT(*) FROM api_calls
ApiTotalCalls == Len(api_calls)

\* recalculate_week: plan the week current_date lies in, show the preview,
\* and when the user accepts it apply the suggestions and log the usage
RecalculateWeek(p, current_date, today, accepted, outcome) ==
  /\ accepted => Len(api_calls) < MaxApiCalls
  /\ \E range \in {CurrentWeekRange(current_date)} :
     \E week_dates \in {DatesInRange(range[1], range[2])} :
     \E recent \in {RecentCompletedWorkouts(workouts, p.id, today)} :
     \E planned \in {PlanWeekCall(CtxOfPlan(p), week_dates, recent, outcome)} :
     \E applied \in {ApplyWeekSuggestions(workouts, sqlite_sequence.workouts, p.id,
                                          week_dates, planned.suggestions)} :
       /\ planned.error = ""
       /\ accepted => applied.last_id <= MaxCalendarId
       /\ call' = planned
       /\ workouts' = IF accepted THEN applied.rows ELSE workouts
       /\ sqlite_sequence' =
            IF accepted THEN [sqlite_sequence EXCEPT !.workouts = applied.last_id]
            ELSE sqlite_sequence
       /\ api_calls' =
            IF accepted THEN Append(api_calls, LoggedCall(p.id, planned.usage))
            ELSE api_calls
       /\ UNCHANGED <<config, observer, workout_templates, app_settings, environ, ret,
                      dialog>>

\* configure_planner(use_openai, api_key)
ConfigurePlanner(u, k) ==
  /\ SetConfig(u, k, NoneV)
  /\ UNCHANGED others

\* add_workout: the dialog's values become a row of the current plan
AddWorkout(p, date_str, data) ==
  LET id == sqlite_sequence.workouts + 1
  IN  /\ id <= MaxCalendarId
      /\ workouts' = workouts \cup
           {InsertedWorkout(id, [plan_id |-> p.id, date |-> date_str,
                                 workout_type |-> data.workout_type,
                                 planned_distance |-> data.planned_distance,
                                 planned_intensity |-> data.planned_intensity,
                                 description |-> data.description,
                                 notes |-> data.notes, modified_by |-> "user"])}
      /\ sqlite_sequence' = [sqlite_sequence EXCEPT !.workouts = id]
      /\ UNCHANGED <<config, call, observer, workout_templates, app_settings,
                     api_calls, environ, ret, dialog>>

\* complete_workout_dialog: the first workout shown on a day is completed
CompleteWorkout(workout_id, data) ==
  /\ \E w \in workouts : w.id = workout_id /\ w.is_current_version = 1
  /\ workouts' = WorkoutsAfterCompletion(workouts, workout_id, data)
  /\ UNCHANGED <<config, call, observer, workout_templates, app_settings,
                 api_calls, sqlite_sequence, environ, ret, dialog>>

(***************************************************************************)
(* The planner as the calendar drives it: any configuration, any sequence  *)
(* of set_config and plan_week calls.                                      *)
(***************************************************************************)
Init ==
  /\ use_openai \in BOOLEAN
  /\ api_key \in {PyOr(k, StrV("")).str : k \in ApiKeys}
  /\ model \in Models
  /\ OPENAI_AVAILABLE \in BOOLEAN
  /\ call = NoCall
  /\ pinned = NoCall
  /\ between = FALSE
  /\ OnlyPlanner

FacadeCtxs == {c \in Ctxs : c.max_days_per_week = 1 /\ c.long_run_day = StrV("Sunday")}

FacadeHistories ==
  {h \in Histories : Len(h) = 0 \/ (Len(h) = 1 /\ IsNumber(RecordDistance(h[1])))}

\* every failure, and the responses with no item, one good item, one item
\* of bad shape
FacadeOutcomes ==
  RemoteFailures \cup
  {o \in RemoteArrays(1) :
     /\ ~o.usage.present
     /\ \A j \in 1..Len(o.data) : o.data[j].date = WeekDate(2) /\ o.data[j].workout_type # StrV("Rest")}

Next ==
  \/ \E u \in BOOLEAN, k \in ApiKeys, m \in {NoneV} \cup {StrV(x) : x \in Models} :
       SetConfig(u, k, m) /\ UNCHANGED others
  \/ \E ctx \in FacadeCtxs, week_dates \in FreeWeeks, recent_workouts \in FacadeHistories,
        outcome \in (IF RemoteSelected THEN FacadeOutcomes ELSE {NoOutcome}) :
       /\ PlanWeek(ctx, week_dates, recent_workouts, outcome)
       /\ UNCHANGED <<observer, others>>

Spec == Init /\ [][Next]_vars

(***************************************************************************)
(* One call on drawn arguments: the arguments (and the remote outcome to   *)
(* come) wait in call until plan_week runs on them.                        *)
(***************************************************************************)
Pending(ctx, week_dates, recent_workouts, outcome) ==
  [NoCall EXCEPT !.ctx = ctx, !.week_dates = week_dates,
                 !.recent_workouts = recent_workouts, !.outcome = outcome]

RunPending ==
  /\ ~call.made
  /\ PlanWeek(call.ctx, call.week_dates, call.recent_workouts, call.outcome)
  /\ UNCHANGED <<observer, others>>

\* the planner as the calendar constructs it:
\* AIPlanner(use_openai=False, api_key=None)
DefaultPlanner ==
  /\ use_openai = FALSE
  /\ api_key = ""
  /\ model = "gpt-4o-mini"
  /\ OPENAI_AVAILABLE \in BOOLEAN

(***************************************************************************)
(* The heuristic provider alone, on every input, where the client library  *)
(* is not installed.                                                       *)
(***************************************************************************)
InitHeuristic ==
  /\ DefaultPlanner
  /\ ~OPENAI_AVAILABLE
  /\ call \in {Pending(c, w, h, NoOutcome) : c \in Ctxs, w \in WeekInputs, h \in Histories}
  /\ pinned = NoCall
  /\ between = FALSE
  /\ OnlyPlanner

SpecHeuristic == InitHeuristic /\ [][RunPending]_vars

(***************************************************************************)
(* The remote provider alone: a planner configured for it, every response. *)
(***************************************************************************)
InitRemote ==
  /\ use_openai = TRUE
  /\ api_key = "sk-test"
  /\ model \in Models
  /\ OPENAI_AVAILABLE = TRUE
  /\ call \in {Pending(c, w, <<>>, o) : c \in FacadeCtxs, w \in FreeWeeks, o \in Outcomes}
  /\ pinned = NoCall
  /\ between = FALSE
  /\ OnlyPlanner

SpecRemote == InitRemote /\ [][RunPending]_vars

(***************************************************************************)
(* Repeated calls on a planner that does not select the remote provider:   *)
(* an observer pins one call and compares the later ones with it.          *)
(***************************************************************************)
InitRepeat ==
  /\ DefaultPlanner
  /\ call = NoCall
  /\ pinned = NoCall
  /\ between = FALSE
  /\ OnlyPlanner

SameArguments(c1, c2) ==
  /\ c1.ctx = c2.ctx
  /\ c1.week_dates = c2.week_dates
  /\ c1.recent_workouts = c2.recent_workouts

\* a plan_week call; the observer may pin it if none is pinned yet
Observed(ctx, week_dates, recent_workouts, pin) ==
  /\ PlanWeek(ctx, week_dates, recent_workouts, NoOutcome)
  /\ pinned' = IF pin /\ ~pinned.made THEN call' ELSE pinned
  /\ between' = (between \/ (pinned.made /\ ~SameArguments(call', pinned)))
  /\ UNCHANGED others

NextRepeat ==
  \E ctx \in FacadeCtxs, week_dates \in FreeWeeks, recent_workouts \in FacadeHistories,
     pin \in BOOLEAN :
    Observed(ctx, week_dates, recent_workouts, pin)

SpecRepeat == InitRepeat /\ [][NextRepeat]_vars

(***************************************************************************)
(* The credential: the process environment is fixed when the program       *)
(* starts; the settings dialog stores keys and the program reads them.     *)
(***************************************************************************)
KeyChars == {" ", "k"}

KeyTexts == SeqsUpTo(KeyChars, MaxKeyLen)

\* OPENAI_API_KEY unset, empty, blank, or holding a key
EnvValues == {NoText} \cup {Text(cs) : cs \in KeyTexts}

InitSettings ==
  /\ DefaultPlanner
  /\ ~OPENAI_AVAILABLE
  /\ call = NoCall
  /\ pinned = NoCall
  /\ between = FALSE
  /\ FreshDatabase
  /\ environ \in EnvValues
  /\ ret = NoRet
  /\ dialog = ClosedDialog

NextSettings ==
  \/ \E key \in EnvValues : SetApiKey(key)
  \/ GetApiKey

SpecSettings == InitSettings /\ [][NextSettings]_vars

(***************************************************************************)
(* The workouts table under DatabaseManager's calls                        *)
(***************************************************************************)
PlanIds == {1, 2}

\* what the dialogs and the planner hand to create_workout
WorkoutPayloads ==
  { [plan_id |-> 1, date |-> WeekDate(2), workout_type |-> "easy",
     planned_distance |-> NumV(40), modified_by |-> "user"],
    [plan_id |-> 1, date |-> WeekDate(7), workout_type |-> "long",
     planned_distance |-> NumV(90), planned_intensity |-> StrV("Z2-3"),
     description |-> NoneV, notes |-> NoneV, modified_by |-> "ai_recalc"],
    [plan_id |-> 1, date |-> WeekDate(7), workout_type |-> "rest"],
    [plan_id |-> 2, date |-> WeekDate(2), workout_type |-> "long",
     planned_distance |-> NumV(90), is_current_version |-> 1] }

\* data for update_workout: allowed keys mixed with others, no allowed key
\* at all, and a reschedule
UpdatePayloads ==
  { [is_current_version |-> 0, completed |-> 0, actual_distance |-> NumV(10)],
    [completed |-> 0, id |-> 9, plan_id |-> 2],
    [date |-> WeekDate(2), modified_by |-> "reschedule"] }

CompletionPayloads ==
  { [actual_distance |-> NumV(40), actual_time_seconds |-> NumV(1800)] }

InitWorkouts ==
  /\ DefaultPlanner
  /\ ~OPENAI_AVAILABLE
  /\ call = NoCall
  /\ pinned = NoCall
  /\ between = FALSE
  /\ OnlyPlanner

NextWorkouts ==
  \/ \E workout_data \in WorkoutPayloads : CreateWorkout(workout_data)
  \/ \E id \in 1..MaxWorkoutId, data \in UpdatePayloads : UpdateWorkout(id, data)
  \/ \E id \in 1..MaxWorkoutId : DeleteWorkout(id)
  \/ \E id \in 1..MaxWorkoutId, completion_data \in CompletionPayloads :
       UpdateWorkoutCompletion(id, completion_data)
  \/ \E plan_id \in PlanIds, from_date \in {WeekDate(1), WeekDate(3)} :
       GetNextKeyWorkout(plan_id, from_date)

SpecWorkouts == InitWorkouts /\ [][NextWorkouts]_vars

(***************************************************************************)
(* The template manager: any sequence of create_template and               *)
(* delete_template calls                                                   *)
(***************************************************************************)
TemplatePayloads ==
  { [name |-> n, workout_type |-> t, planned_distance |-> NumV(40)] :
      n \in {"Tempo Tuesday", "Sunday Long"}, t \in {"tempo", "long"} }
  \cup
  { [name |-> "Tempo Tuesday", workout_type |-> "tempo",
     planned_intensity |-> StrV("T pace"), description |-> NoneV, notes |-> NoneV] }

InitTemplates ==
  /\ DefaultPlanner
  /\ ~OPENAI_AVAILABLE
  /\ call = NoCall
  /\ pinned = NoCall
  /\ between = FALSE
  /\ OnlyPlanner

NextTemplates ==
  \/ \E tpl \in TemplatePayloads, consumed \in BOOLEAN : CreateTemplate(tpl, consumed)
  \/ \E template_id \in 1..MaxTemplateId : DeleteTemplate(template_id)

SpecTemplates == InitTemplates /\ [][NextTemplates]_vars

(***************************************************************************)
(* The completion dialog with a time already typed into it                 *)
(***************************************************************************)
\* what stands between the colons: nothing, numbers below, at and above
\* sixty, a negative one, one with a blank, and one that is no number
TimeFields ==
  { <<>>, <<"0">>, <<"5", "9">>, <<"6", "0">>, <<"1", "2", "5">>, <<"-", "1">>,
    <<" ", "7">>, <<"x">> }

RECURSIVE Join(_)
Join(fields) ==
  IF Len(fields) = 1 THEN fields[1]
  ELSE fields[1] \o <<":">> \o Join(Tail(fields))

\* up to MaxTimeParts fields joined by colons, bare or between blanks
TimeTexts ==
  LET joined == {Join(fs) : fs \in SeqsUpTo(TimeFields, MaxTimeParts) \ {<<>>}}
  IN  joined \cup {<<" ">> \o t \o <<" ">> : t \in joined}

InitDialog ==
  /\ DefaultPlanner
  /\ ~OPENAI_AVAILABLE
  /\ call = NoCall
  /\ pinned = NoCall
  /\ between = FALSE
  /\ FreshDatabase
  /\ environ = NoText
  /\ ret = NoRet
  /\ dialog \in {[ClosedDialog EXCEPT !.open = TRUE, !.time_edit = t, !.other_data = o] :
                   t \in TimeTexts, o \in BOOLEAN}

NextDialog ==
  \/ \E proceed \in BOOLEAN : OnAccept(proceed)
  \/ \E text \in {<<"5", "9", ":", "6", "0">>, <<"1", "2", "5", ":", "5", "9">>} :
       EditTime(text)
  \/ Reject

SpecDialog == InitDialog /\ [][NextDialog]_vars

(***************************************************************************)
(* The calendar: workouts are added and completed, the planner is          *)
(* configured, weeks are recalculated and the preview accepted or not.     *)
(***************************************************************************)
\* the rows of the plans table: never written after create_plan
PlanRows ==
  { [id |-> 1, max_days_per_week |-> NumV(1), long_run_day |-> StrV("Sunday")],
    [id |-> 2, max_days_per_week |-> NumV(2), long_run_day |-> StrV("Wednesday")] }

\* the plan the calendar shows
CurrentPlan == CHOOSE p \in PlanRows : p.id = 1

\* where workouts were added by hand: on the Sunday of the week shown, and
\* on the same day while the other plan was shown
AddedAt == {<<1, <<2024, 1, 7>>>>, <<2, <<2024, 1, 7>>>>}

\* the dates the calendar stands on: the Sunday and the Saturday of the
\* week 2024-01-07 .. 2024-01-13
CurrentDates == {<<2024, 1, 7>>, <<2024, 1, 13>>}

\* QDate.currentDate()
Todays == {<<2024, 1, 12>>}

\* AddEditWorkoutDialog.value()
DialogValues ==
  { [workout_type |-> "easy", planned_distance |-> NumV(40),
     planned_intensity |-> NoneV, description |-> NoneV, notes |-> StrV("new shoes")] }

\* the response to a recalculation: a failure, an empty array, and a tempo
\* run for the Tuesday with a rest for the Sunday
CalendarOutcomes ==
  { o \in RemoteFailures : o.kind = "api_error" } \cup
  { [kind |-> "json_array", data |-> d, usage |-> u] :
      d \in {<<>>, <<Item(TRUE, <<2024, 1, 9>>, StrV("Tempo"), NumV(50)),
                    Item(TRUE, <<2024, 1, 7>>, StrV("Rest"), NoneV)>>},
      u \in {v \in ResponseUsages : v.present} }

InitCalendar ==
  /\ DefaultPlanner
  /\ OPENAI_AVAILABLE
  /\ call = NoCall
  /\ pinned = NoCall
  /\ between = FALSE
  /\ OnlyPlanner

NextCalendar ==
  \/ \E c \in {<<TRUE, StrV("sk-test")>>, <<FALSE, NoneV>>} : ConfigurePlanner(c[1], c[2])
  \/ \E a \in AddedAt, data \in DialogValues :
       AddWorkout(CHOOSE p \in PlanRows : p.id = a[1], a[2], data)
  \/ \E id \in 1..MaxCalendarId, data \in CompletionPayloads : CompleteWorkout(id, data)
  \/ \E current_date \in CurrentDates, today \in Todays, accepted \in BOOLEAN,
        outcome \in (IF RemoteSelected THEN CalendarOutcomes ELSE {NoOutcome}) :
       RecalculateWeek(CurrentPlan, current_date, today, accepted, outcome)

SpecCalendar == InitCalendar /\ [][NextCalendar]_vars


(***************************************************************************)
(* The heuristic on a week and then on the week after it: the same         *)
(* constraints, no history, every date seven days later.                   *)
(***************************************************************************)
\* the dates of week_dates, each seven days later
ShiftedWeek(week_dates) == [i \in 1..Len(week_dates) |-> AddDays(week_dates[i], 7)]

InitShift ==
  /\ DefaultPlanner
  /\ call \in {Pending(c, w, <<>>, NoOutcome) : c \in Ctxs, w \in ConsecutiveWeeks}
  /\ pinned = NoCall
  /\ between = FALSE
  /\ OnlyPlanner

\* the second call: the first one is kept in pinned, and plan_week runs on
\* the same ctx and history with the shifted dates
PlanNextWeek ==
  /\ call.made
  /\ ~pinned.made
  /\ pinned' = call
  /\ PlanWeek(call.ctx, ShiftedWeek(call.week_dates), call.recent_workouts, NoOutcome)
  /\ UNCHANGED <<between, others>>

NextShift == RunPending \/ PlanNextWeek

SpecShift == InitShift /\ [][NextShift]_vars

(***************************************************************************)
(* The heuristic on plans that carry a goal and a long-run cap, with       *)
(* histories of short and of long runs.                                    *)
(***************************************************************************)
\* PlanContext as recalculate_week fills it, with the two fields the
\* mileage ceiling is about; long_run_cap in percent (0.10 is 10)
GoalCtxs ==
  [max_days_per_week : 1..MaxDaysCap, long_run_day : {StrV("Sunday"), StrV("Tuesday")},
   goal_type : {"general", "half"}, long_run_cap : {10, 30}]

\* completed runs of 4.0 and of 8.0 miles
GoalHistories ==
  SeqsUpTo({ [workout_type |-> StrV("easy"), actual_distance |-> NumV(40),
              planned_distance |-> NumV(60)],
             [workout_type |-> StrV("long"), actual_distance |-> NumV(80),
              planned_distance |-> NumV(80)] }, MaxHistLen)

InitGoals ==
  /\ DefaultPlanner
  /\ call \in {Pending(c, w, h, NoOutcome) :
                 c \in GoalCtxs, w \in ConsecutiveWeeks, h \in GoalHistories}
  /\ pinned = NoCall
  /\ between = FALSE
  /\ OnlyPlanner

SpecGoals == InitGoals /\ [][RunPending]_vars

(***************************************************************************)
(* The heuristic on histories of completed workouts as the calendar hands  *)
(* them over: rows with a completed flag, an actual and a planned distance.*)
(***************************************************************************)
\* completed rows: one logged with an actual distance of 0.0, one with 4.0,
\* one without an actual distance, and one planned at 0.0 miles and logged
\* without a distance
CompletedRecords ==
  { [completed |-> NumV(1), actual_distance |-> NumV(0), planned_distance |-> NumV(60)],
    [completed |-> NumV(1), actual_distance |-> NumV(40), planned_distance |-> NumV(60)],
    [completed |-> NumV(1), actual_distance |-> NoneV, planned_distance |-> NumV(50)],
    [completed |-> NumV(1), actual_distance |-> NoneV, planned_distance |-> NumV(0)] }

InitBaseline ==
  /\ DefaultPlanner
  /\ call \in {Pending(c, w, h, NoOutcome) :
                 c \in {x \in Ctxs : x.long_run_day = StrV("Sunday")},
                 w \in {DateRange(1, 7), DateRange(7, 7)},
                 h \in SeqsUpTo(CompletedRecords, MaxHistLen)}
  /\ pinned = NoCall
  /\ between = FALSE
  /\ OnlyPlanner

SpecBaseline == InitBaseline /\ [][RunPending]_vars

(***************************************************************************)
(* Rescheduling from the calendar: workouts are added and completed, and   *)
(* the first workout of a day is moved or copied to another date.          *)
(***************************************************************************)
\* MoveCopyDialog.result_value(): None when cancelled, else mode and date
Cancelled == [mode |-> "none", date |-> <<>>]

RescheduleResults ==
  {Cancelled} \cup
  { [mode |-> m, date |-> d] : m \in {"move", "copy"},
                               d \in {<<2024, 1, 7>>, <<2024, 1, 9>>} }

\* _move_or_copy_workout with the fault of copying in both modes
RescheduledAlwaysCopies(rows, last_id, pid, workout, result) ==
  IF result = Cancelled THEN [rows |-> rows, last_id |-> last_id]
  ELSE [rows |-> rows \cup
                 {InsertedWorkout(last_id + 1,
                    [plan_id |-> pid, date |-> result.date,
                     workout_type |-> workout.workout_type,
                     planned_distance |-> workout.planned_distance,
                     planned_intensity |-> workout.planned_intensity,
                     description |-> workout.description,
                     notes |-> workout.notes, modified_by |-> "reschedule-copy"])},
        last_id |-> last_id + 1]

\* the workouts table and its id counter after _move_or_copy_workout
Rescheduled(rows, last_id, pid, workout, result) ==
  IF result = Cancelled THEN [rows |-> rows, last_id |-> last_id]
  ELSE IF result.mode = "move"
    THEN [rows |-> WorkoutsAfterUpdate(rows, workout.id,
                     [date |-> result.date, modified_by |-> "reschedule"]),
          last_id |-> last_id]
  ELSE [rows |-> rows \cup
                 {InsertedWorkout(last_id + 1,
                    [plan_id |-> pid, date |-> result.date,
                     workout_type |-> workout.workout_type,
                     planned_distance |-> workout.planned_distance,
                     planned_intensity |-> workout.planned_intensity,
                     description |-> workout.description,
                     notes |-> workout.notes, modified_by |-> "reschedule-copy"])},
        last_id |-> last_id + 1]

\* workouts_for_day[0]: the plan's first current workout of the date shown
FirstOfDay(rows, pid, date_str) == Head(GetWorkoutsOnDate(rows, pid, date_str, TRUE))

\* _move_or_copy_workout(date_str, workouts_for_day[0])
MoveOrCopyWorkout(p, date_str, result) ==
  /\ GetWorkoutsOnDate(workouts, p.id, date_str, TRUE) # <<>>
  /\ LET after == Rescheduled(workouts, sqlite_sequence.workouts, p.id,
                              FirstOfDay(workouts, p.id, date_str), result)
     IN  /\ after.last_id <= MaxCalendarId
         /\ workouts' = after.rows
         /\ sqlite_sequence' = [sqlite_sequence EXCEPT !.workouts = after.last_id]
  /\ UNCHANGED <<config, call, observer, workout_templates, app_settings,
                 api_calls, environ, ret, dialog>>

InitReschedule ==
  /\ DefaultPlanner
  /\ call = NoCall
  /\ pinned = NoCall
  /\ between = FALSE
  /\ OnlyPlanner

NextReschedule ==
  \/ \E a \in AddedAt, data \in DialogValues :
       AddWorkout(CHOOSE p \in PlanRows : p.id = a[1], a[2], data)
  \/ \E id \in 1..MaxCalendarId, data \in CompletionPayloads : CompleteWorkout(id, data)
  \/ \E date_str \in {<<2024, 1, 7>>, <<2024, 1, 9>>}, result \in RescheduleResults :
       MoveOrCopyWorkout(CurrentPlan, date_str, result)

SpecReschedule == InitReschedule /\ [][NextReschedule]_vars

(***************************************************************************)
(* The calendar with workouts inside and outside the week shown: the week  *)
(* is recalculated, and the preview accepted or cancelled.                 *)
(***************************************************************************)
\* where workouts were added by hand: in the week before the one shown, in
\* the week shown, and in that week while the other plan was shown
AddedAround ==
  {<<1, <<2024, 1, 2>>>>, <<1, <<2024, 1, 7>>>>, <<2, <<2024, 1, 7>>>>}

NextPreview ==
  \/ \E c \in {<<TRUE, StrV("sk-test")>>, <<FALSE, NoneV>>} : ConfigurePlanner(c[1], c[2])
  \/ \E a \in AddedAround, data \in DialogValues :
       AddWorkout(CHOOSE p \in PlanRows : p.id = a[1], a[2], data)
  \/ \E current_date \in CurrentDates, today \in Todays, accepted \in BOOLEAN,
        outcome \in (IF RemoteSelected THEN CalendarOutcomes ELSE {NoOutcome}) :
       RecalculateWeek(CurrentPlan, current_date, today, accepted, outcome)

SpecPreview == InitCalendar /\ [][NextPreview]_vars

(***************************************************************************)
(* The plan wizard: six stacked pages, Back / Next / Create Plan, and two  *)
(* of the fields its pages hold.                                           *)
(***************************************************************************)
\* init_ui: the pages in the order they are added to the stack
wizard_pages ==
  <<"page_goal", "page_timeline", "page_baseline", "page_schedule", "page_guardrails",
    "page_review">>

\* the goal_value of the radio buttons of the goal page
goals == <<"5K", "10K", "half", "marathon", "fitness", "maintenance">>

\* max_days.setRange(3, 7)
MaxDaysRange == 3..7

\* update_navigation with the fault of a Back button that is always enabled
UpdateNavigationBackAlways(w) ==
  LET current_index == w.stack_index
      total_pages == Len(wizard_pages)
  IN  [w EXCEPT !.back_enabled = TRUE,
                !.next_hidden = (current_index = total_pages - 1),
                !.create_hidden = ~(current_index = total_pages - 1)]

\* update_navigation: Back enabled past the first page; on the last page
\* Next is hidden and Create Plan shown, elsewhere the other way round
UpdateNavigation(w) ==
  LET current_index == w.stack_index
      total_pages == Len(wizard_pages)
  IN  [w EXCEPT !.back_enabled = (current_index > 0),
                !.next_hidden = (current_index = total_pages - 1),
                !.create_hidden = ~(current_index = total_pages - 1)]

\* PlanWizard.__init__: the stack shows its first page, create_footer hides
\* Create Plan, the first goal is checked, and update_navigation has run
WizardShown ==
  UpdateNavigation([open |-> TRUE, stack_index |-> 0, back_enabled |-> TRUE,
                    next_hidden |-> FALSE, create_hidden |-> TRUE,
                    goal |-> 1, max_days |-> 5, accepted |-> FALSE,
                    plan_data |-> [goal_type |-> "", max_days_per_week |-> 0]])

\* previous_page
PreviousPage ==
  /\ dialog.open
  /\ dialog' = IF dialog.stack_index > 0
                 THEN UpdateNavigation([dialog EXCEPT !.stack_index = @ - 1])
               ELSE dialog
  /\ UNCHANGED <<config, call, observer, database, environ, ret>>

\* next_page
NextPage ==
  /\ dialog.open
  /\ dialog' = IF dialog.stack_index < Len(wizard_pages) - 1
                 THEN UpdateNavigation([dialog EXCEPT !.stack_index = @ + 1])
               ELSE dialog
  /\ UNCHANGED <<config, call, observer, database, environ, ret>>

\* a radio button of the goal page is checked while that page is shown
CheckGoal(g) ==
  /\ dialog.open
  /\ wizard_pages[dialog.stack_index + 1] = "page_goal"
  /\ dialog' = [dialog EXCEPT !.goal = g]
  /\ UNCHANGED <<config, call, observer, database, environ, ret>>

\* the spin box of the schedule page is changed while that page is shown
SetMaxDays(n) ==
  /\ dialog.open
  /\ wizard_pages[dialog.stack_index + 1] = "page_schedule"
  /\ dialog' = [dialog EXCEPT !.max_days = n]
  /\ UNCHANGED <<config, call, observer, database, environ, ret>>

\* create_plan, connected to the Create Plan button: a hidden button is not
\* clicked
CreatePlan ==
  /\ dialog.open
  /\ ~dialog.create_hidden
  /\ dialog' = [dialog EXCEPT !.plan_data = [goal_type |-> goals[dialog.goal],
                                              max_days_per_week |-> dialog.max_days],
                              !.accepted = TRUE, !.open = FALSE]
  /\ UNCHANGED <<config, call, observer, database, environ, ret>>

InitWizard ==
  /\ DefaultPlanner
  /\ call = NoCall
  /\ pinned = NoCall
  /\ between = FALSE
  /\ FreshDatabase
  /\ environ = NoText
  /\ ret = NoRet
  /\ dialog = WizardShown

NextWizard ==
  \/ PreviousPage
  \/ NextPage
  \/ \E g \in 1..Len(goals) : CheckGoal(g)
  \/ \E n \in MaxDaysRange : SetMaxDays(n)
  \/ CreatePlan

SpecWizard == InitWizard /\ [][NextWizard]_vars

(***************************************************************************)
(* The settings dialog saves; the database's readers read                  *)
(***************************************************************************)
\* the items of the engine combo box, by index
engine_items == <<"Heuristic (offline)", "OpenAI">>

\* SettingsDialog._save: planner_mode from the combo box, openai_api_key from
\* the stripped line edit ("" when nothing is left)
SaveSettings(engine_index, key_text) ==
  LET mode == IF engine_index = 1 THEN <<"o", "p", "e", "n", "a", "i">>
              ELSE <<"h", "e", "u", "r", "i", "s", "t", "i", "c">>
      key == Strip(key_text)
  IN  /\ app_settings' = SetSetting(SetSetting(app_settings, "planner_mode", mode),
                                    "openai_api_key", key)
      /\ ret' = [op |-> "_save", engine |-> engine_items[engine_index + 1],
                 key |-> key_text]
      /\ UNCHANGED <<config, call, observer, workouts, workout_templates, api_calls,
                     sqlite_sequence, environ, dialog>>

\* get_openai_settings: (get_setting("use_openai") or "0") == "1",
\* get_setting("openai_api_key") or ""
GetOpenaiSettingsOf(settings) ==
  [use_openai |-> TextOrEmpty(GetSetting(settings, "use_openai")) = <<"1">>,
   api_key |-> TextOrEmpty(GetSetting(settings, "openai_api_key")),
   model |-> IF TextOrEmpty(GetSetting(settings, "openai_model")) = <<>>
               THEN <<"g", "p", "t", "-", "4", "o", "-", "m", "i", "n", "i">>
             ELSE GetSetting(settings, "openai_model").text]

GetOpenaiSettings ==
  /\ ret' = [op |-> "get_openai_settings", value |-> GetOpenaiSettingsOf(app_settings)]
  /\ UNCHANGED <<config, call, observer, database, environ, dialog>>

NextSettingsDialog ==
  \/ \E engine_index \in {0, 1} : \E key_text \in KeyTexts :
       SaveSettings(engine_index, key_text)
  \/ \E key \in EnvValues : SetApiKey(key)
  \/ GetApiKey
  \/ GetOpenaiSettings

SpecSettingsDialog == InitSettings /\ [][NextSettingsDialog]_vars

(***************************************************************************)
(* TemplateManager: a listed template is renamed                           *)
(***************************************************************************)
\* what QInputDialog.getText hands back, after new_name.strip(): nothing, the
\* name of a template or a name no template has
NewNames == {"", "Tempo Tuesday", "Sunday Long", "Hill Repeats"}

\* _rename for the template tpl of the list: returns on a cancelled or blank
\* or unchanged name; else create_template(dict(tpl) with the new name and
\* without the id), then delete_template(tpl["id"]).  consumed is as in
\* CreateTemplate
Rename(tpl, new_name, ok, consumed) ==
  LET id == sqlite_sequence.workout_templates + 1
      proceed == ok /\ new_name # "" /\ new_name # tpl.name
      conflict == \E t \in workout_templates : t.name = new_name
      new_payload == [k \in DOMAIN tpl \ {"id"} |->
                        IF k = "name" THEN new_name ELSE tpl[k]]
      created == TemplatesAfterCreate(workout_templates, id, new_payload)
  IN  /\ tpl \in workout_templates
      /\ (proceed /\ ~conflict) => consumed
      /\ (proceed /\ consumed) => id <= MaxTemplateId
      /\ ~proceed => ~consumed
      /\ workout_templates' =
           IF proceed THEN {t \in created : t.id # tpl.id} ELSE workout_templates
      /\ sqlite_sequence' =
           IF consumed THEN [sqlite_sequence EXCEPT !.workout_templates = id]
           ELSE sqlite_sequence
      /\ ret' = [op |-> "_rename", tpl |-> tpl, new_name |-> new_name,
                 renamed |-> proceed]
      /\ UNCHANGED <<config, call, observer, workouts, app_settings, api_calls,
                     environ, dialog>>

NextRename ==
  \/ \E tpl \in TemplatePayloads, consumed \in BOOLEAN : CreateTemplate(tpl, consumed)
  \/ \E tpl \in workout_templates, new_name \in NewNames, ok \in BOOLEAN,
        consumed \in BOOLEAN : Rename(tpl, new_name, ok, consumed)
  \/ \E template_id \in 1..MaxTemplateId : DeleteTemplate(template_id)

SpecRename == InitTemplates /\ [][NextRename]_vars
(***************************************************************************)
(* The claims                                                              *)
(***************************************************************************)
AllDatesParse(week_dates) ==
  \A i \in 1..Len(week_dates) : IsValidDate(week_dates[i])

\* the positions of the suggestions that are training days
NonRest(suggestions) ==
  {i \in 1..Len(suggestions) : suggestions[i].workout_type # "rest"}

\* the remote provider raises on this outcome
RemoteRaises(outcome) ==
  \/ outcome.kind # "json_array"
  \/ \E j \in 1..Len(outcome.data) : ItemRaises(outcome.data[j])

\* C1: for n >= 1 well-formed dates, whichever provider serves the call
\* (heuristic, remote, remote falling back to the heuristic), plan_week
\* returns exactly n suggestions and the i-th carries the i-th date.
C1_LengthAndOrder ==
  (call.made /\ Len(call.week_dates) >= 1 /\ AllDatesParse(call.week_dates)) =>
    /\ call.error = ""
    /\ Len(call.suggestions) = Len(call.week_dates)
    /\ \A i \in 1..Len(call.week_dates) : call.suggestions[i].date = call.week_dates[i]

\* the remote provider answered a two-date request with one item only
C1_Witness ==
  /\ call.made
  /\ call.served_by = "remote"
  /\ Len(call.week_dates) = 2
  /\ call.week_dates[1] # call.week_dates[2]
  /\ AllDatesParse(call.week_dates)
  /\ Len(call.outcome.data) = 1
  /\ Len(call.suggestions) = 2

\* C2: the heuristic never hands back more training days than
\* ctx.max_days_per_week.
C2_DayCountCap ==
  (call.made /\ call.error = "") =>
    Cardinality(NonRest(call.suggestions)) <= call.ctx.max_days_per_week

\* the cap bit: a Thursday rests although Thursday is a tempo day
C2_Witness ==
  /\ call.made
  /\ call.error = ""
  /\ call.ctx.max_days_per_week >= 1
  /\ Cardinality(NonRest(call.suggestions)) = call.ctx.max_days_per_week
  /\ \E i \in 1..Len(call.week_dates) :
       /\ WeekdayIndex(call.week_dates[i]) = 3
       /\ call.suggestions[i].workout_type = "rest"
       /\ LongDay(call.ctx) # "thursday"

\* C3: with max_days_per_week >= 1 the date of a week that falls on the
\* long-run day gets "long", also when max_days_per_week training days come
\* before it (stated for lists of distinct dates).
C3_LongRunTakesPriority ==
  (/\ call.made
   /\ call.error = ""
   /\ call.ctx.max_days_per_week >= 1
   /\ \A i, j \in 1..Len(call.week_dates) :
        i # j => call.week_dates[i] # call.week_dates[j]) =>
    \A i \in 1..Len(call.week_dates) :
      weekday_names[WeekdayIndex(call.week_dates[i]) + 1] = LongDay(call.ctx) =>
        call.suggestions[i].workout_type = "long"

\* C4: when the remote provider is called and raises, plan_week hands back
\* what the heuristic gives on the same arguments, and nothing the remote
\* provider raised reaches the caller.
C4_FallbackOnRemoteFailure ==
  (call.made /\ call.remote_called /\ RemoteRaises(call.outcome)) =>
    LET h == PlanHeuristic(call.ctx, call.week_dates, call.recent_workouts)
    IN  /\ call.error = h.error
        /\ call.error \in {"", "ValueError"}
        /\ call.suggestions = h.suggestions
        /\ call.usage = h.usage
        /\ AllDatesParse(call.week_dates) =>
             call.error = "" /\ Len(call.suggestions) = Len(call.week_dates)

\* the response was not JSON and the caller still got its two days
C4_Witness ==
  /\ call.made
  /\ call.remote_called
  /\ call.outcome.kind = "not_json"
  /\ call.error = ""
  /\ Len(call.suggestions) = 2

\* C5: a plan_week call runs the remote provider exactly when the flag is
\* set, the key is not empty and the client library is there; otherwise the
\* heuristic serves it and no remote outcome is consumed.
C5_RemoteOnlyWhenConfigured ==
  [][call' # call =>
       LET configured == use_openai /\ api_key # "" /\ OPENAI_AVAILABLE
       IN  /\ call'.remote_called <=> configured
           /\ ~configured =>
                /\ call'.served_by = "heuristic"
                /\ call'.outcome = NoOutcome
                /\ call'.caught = ""]_vars

\* flag and key set, library missing: the heuristic served the call
C5_Witness ==
  /\ call.made
  /\ ~call.remote_called
  /\ call.served_by = "heuristic"
  /\ use_openai
  /\ api_key # ""
  /\ ~OPENAI_AVAILABLE

\* an item of good shape: a dict whose workout_type is null or a string
GoodShape(item) == item.is_dict /\ item.workout_type.kind \in {"none", "str"}

\* C6: a response that is an array of items of good shape never fails the
\* remote path, whatever dates it carries: a requested date with no item
\* gets "rest" with null distance and intensity, a requested date with an
\* item gets the suggestion of one of its items.
C6_MissingDatesRest ==
  (/\ call.made
   /\ call.remote_called
   /\ call.outcome.kind = "json_array"
   /\ \A j \in 1..Len(call.outcome.data) : GoodShape(call.outcome.data[j])) =>
    /\ call.served_by = "remote"
    /\ call.error = ""
    /\ Len(call.suggestions) = Len(call.week_dates)
    /\ \A i \in 1..Len(call.week_dates) :
         LET items == {j \in 1..Len(call.outcome.data) :
                         call.outcome.data[j].date = call.week_dates[i]}
         IN  IF items = {}
               THEN /\ call.suggestions[i].date = call.week_dates[i]
                    /\ call.suggestions[i].workout_type = "rest"
                    /\ call.suggestions[i].planned_distance = NoneV
                    /\ call.suggestions[i].planned_intensity = NoneV
             ELSE \E j \in items :
                    call.suggestions[i] = ItemSuggestion(call.outcome.data[j])

\* one requested date answered, one omitted, and the response also holds an
\* item without a date
C6_Witness ==
  /\ call.made
  /\ call.served_by = "remote"
  /\ Len(call.week_dates) = 2
  /\ call.suggestions[1].workout_type = "tempo"
  /\ call.suggestions[2].workout_type = "rest"
  /\ \A j \in 1..Len(call.outcome.data) : call.outcome.data[j].date # call.week_dates[2]
  /\ \E j \in 1..Len(call.outcome.data) : call.outcome.data[j].date = <<>>

\* C7 as claimed: a week_dates list with a string that does not parse makes
\* plan_week fail with the parse error, whichever provider is selected, and
\* plan_week fails in no other way.
C7_ParseErrorWhicheverProvider ==
  call.made =>
    /\ ~AllDatesParse(call.week_dates) => call.error = "ValueError"
    /\ call.error # "" => (call.error = "ValueError" /\ ~AllDatesParse(call.week_dates))

\* C7 as amended: plan_week fails with the parse error exactly when
\* week_dates holds a string that does not parse and the heuristic serves the
\* call (selected, or as the fallback of a remote call that raised); a
\* remote call that succeeds never parses the dates and does not fail; the
\* parse error is the only failure.
C7_ParseErrorFromHeuristic ==
  call.made =>
    LET heuristic == ~call.remote_called \/ RemoteRaises(call.outcome)
    IN  /\ call.error \in {"", "ValueError"}
        /\ call.error = "ValueError" <=> (heuristic /\ ~AllDatesParse(call.week_dates))

\* the remote call raised and the fallback met the malformed date
C7_Witness ==
  /\ call.made
  /\ call.remote_called
  /\ RemoteRaises(call.outcome)
  /\ ~AllDatesParse(call.week_dates)
  /\ call.error = "ValueError"

\* C8: plan_week on an empty week_dates hands back an empty list and no
\* error, for any constraints and any history.
C8_EmptyWeek ==
  (call.made /\ call.week_dates = <<>>) =>
    call.error = "" /\ call.suggestions = <<>>

\* an empty week with a history and a day budget
C8_Witness ==
  /\ call.made
  /\ call.week_dates = <<>>
  /\ Len(call.recent_workouts) = MaxHistLen
  /\ call.ctx.max_days_per_week = MaxDaysCap
  /\ call.suggestions = <<>>

Unusable(r) ==
  \A k \in {"actual_distance", "planned_distance"} :
    k \notin DOMAIN r \/ r[k].kind \in {"none", "str"}

\* C10: history records with no usable distance never make the heuristic
\* fail, and the result is the one for the history without those records.
C10_UnusableHistorySkipped ==
  call.made =>
    LET kept == SelectSeq(call.recent_workouts, LAMBDA r : ~Unusable(r))
        h == PlanHeuristic(call.ctx, call.week_dates, kept)
    IN  /\ call.error = h.error
        /\ call.suggestions = h.suggestions
        /\ AllDatesParse(call.week_dates) => call.error = ""

\* a history of one unusable and one usable record, and a training day
\* whose distance comes from the usable one
C10_Witness ==
  /\ call.made
  /\ call.error = ""
  /\ Len(call.recent_workouts) = 2
  /\ Unusable(call.recent_workouts[1])
  /\ ~Unusable(call.recent_workouts[2])
  /\ \E i \in NonRest(call.suggestions) :
       call.suggestions[i].planned_distance = NumV(68)

\* an environment value that is unset, empty, or blank after stripping
EnvBlank == environ.kind = "none" \/ Strip(environ.text) = <<>>

\* C12: get_api_key returns the environment value (stripped) when the
\* environment holds a non-blank one, and otherwise the persisted
\* app_settings value: an empty or blank OPENAI_API_KEY never masks a
\* persisted key.
C12_ApiKeyPrecedence ==
  ret.op = "get_api_key" =>
    ret.value = IF EnvBlank THEN GetSetting(app_settings, "api_key")
                ELSE Text(Strip(environ.text))

\* C16: update_workout writes exactly the allowed keys of data into the one
\* row with the given id; every other field of that row (the completion
\* fields too), every other row and every other table stay as they were, and
\* data without an allowed key changes nothing.
C16_UpdateWorkoutFrame ==
  [][ret'.op = "update_workout" =>
       LET id == ret'.workout_id
           data == ret'.data
           keys == DOMAIN data \cap
                     {"date", "workout_type", "planned_distance", "planned_intensity",
                      "description", "notes", "version", "is_current_version",
                      "modified_by"}
       IN  /\ \A w \in workouts : w.id # id => w \in workouts'
           /\ \A w \in workouts : w.id = id =>
                \E v \in workouts' :
                  /\ v.id = id
                  /\ \A f \in DOMAIN w : v[f] = IF f \in keys THEN data[f] ELSE w[f]
           /\ Cardinality(workouts') = Cardinality(workouts)
           /\ (keys = {} => workouts' = workouts)
           /\ UNCHANGED <<workout_templates, app_settings, api_calls, sqlite_sequence>>
  ]_vars

\* a completed workout was updated with data that mixes an allowed key with
\* keys outside the allowed set, next to another workout
C16_Witness ==
  /\ ret.op = "update_workout"
  /\ "is_current_version" \in DOMAIN ret.data
  /\ "completed" \in DOMAIN ret.data
  /\ \E w \in workouts : /\ w.id = ret.workout_id
                         /\ w.completed = 1
                         /\ w.actual_distance = NumV(40)
                         /\ w.is_current_version = 0
  /\ \E w \in workouts : w.id # ret.workout_id

UniqueNames(rows) == \A t, u \in rows : t.name = u.name => t = u

\* create_template ran on a name the table already held: that row has the
\* payload's fields, kept its id, and its id is what the call returned
UpsertedInPlace ==
  \A t \in workout_templates :
    t.name = ret'.tpl.name =>
      \E u \in workout_templates' :
        /\ u.id = t.id
        /\ u.name = t.name
        /\ u.workout_type = ret'.tpl.workout_type
        /\ u.planned_distance = DictGet(ret'.tpl, "planned_distance")
        /\ u.planned_intensity = DictGet(ret'.tpl, "planned_intensity")
        /\ u.description = DictGet(ret'.tpl, "description")
        /\ u.notes = DictGet(ret'.tpl, "notes")
        /\ ret'.value = t.id
        /\ \A v \in workout_templates : v # t => v \in workout_templates'
        /\ Cardinality(workout_templates') = Cardinality(workout_templates)

\* the call before this one was create_template with the same payload
SecondOfTwo == ret.op = "create_template" /\ ret'.op = "create_template" /\ ret'.tpl = ret.tpl

\* C18 as stated: names stay unique, a create on an existing name updates
\* that row and returns its id, and a second create_template with the same
\* payload leaves the state (rows and AUTOINCREMENT counter) as the first
\* call left it.
C18_UpsertSameState ==
  /\ [](UniqueNames(workout_templates))
  /\ [][ret'.op = "create_template" => UpsertedInPlace]_vars
  /\ [][SecondOfTwo => UNCHANGED <<workout_templates, sqlite_sequence>> /\ ret' = ret]_vars

\* C18 amended: names stay unique, a create on an existing name updates that
\* row and returns its id, and a second create_template with the same
\* payload leaves the rows of workout_templates and the returned id as the
\* first call left them (the AUTOINCREMENT counter may advance).
C18_UpsertSameRows ==
  /\ [](UniqueNames(workout_templates))
  /\ [][ret'.op = "create_template" => UpsertedInPlace]_vars
  /\ [][SecondOfTwo => UNCHANGED workout_templates /\ ret' = ret]_vars

\* create_template has just updated a template in place, next to another
\* template: the row carries the payload's type and the id the call
\* returned, and the id counter is ahead of that id
C18_Witness ==
  /\ ret.op = "create_template"
  /\ Cardinality(workout_templates) = 2
  /\ \E t \in workout_templates :
       /\ t.name = ret.tpl.name
       /\ t.id = ret.value
       /\ t.id < sqlite_sequence.workout_templates
       /\ t.workout_type = "long"
       /\ t.name = "Tempo Tuesday"

\* the seconds a list of one to three numbers stands for: s, m*60+s or
\* h*3600+m*60+s
RECURSIVE SecondsOf(_)
SecondsOf(ns) ==
  IF ns = <<>> THEN 0
  ELSE 60 * SecondsOf(SubSeq(ns, 1, Len(ns) - 1)) + ns[Len(ns)]

\* what the claim says the parser does with a text.  A field is a number
\* where int() reads one; the leading field (the only one of 'ss') has to be
\* non-negative, the fields after it have to lie in 0..59
ClaimedParse(text) ==
  LET fields == Split(Strip(text))
      ns == [i \in 1..Len(fields) |-> IntOf(fields[i]).value]
      wellFormed ==
        /\ Len(fields) \in 1..3
        /\ \A i \in 1..Len(fields) : IntOf(fields[i]).ok
        /\ ns[1] >= 0
        /\ \A i \in 2..Len(fields) : ns[i] \in 0..59
  IN  IF \A i \in 1..Len(text) : text[i] = " " THEN [kind |-> "none", value |-> 0]
      ELSE IF wellFormed THEN [kind |-> "int", value |-> SecondsOf(ns)]
      ELSE [kind |-> "ValueError", value |-> 0]

\* C19: _parse_hhmmss_to_seconds returns None for an empty or blank text,
\* the seconds of a well-formed 'ss', 'mm:ss' or 'hh:mm:ss', and raises
\* ValueError for every other text; the completion dialog is never accepted
\* with a time in its field that raises.
C19_TimeParsing ==
  /\ ret.op = "_parse_hhmmss_to_seconds" => ret.value = ClaimedParse(ret.text)
  /\ dialog.accepted => ClaimedParse(dialog.time_edit).kind # "ValueError"

\* OK was pressed on a time of three numbers whose minutes are 60: the
\* parser raised, the warning is up and the dialog is still open
C19_Witness ==
  /\ ret.op = "_parse_hhmmss_to_seconds"
  /\ ret.value.kind = "ValueError"
  /\ ret.text = <<"0", ":", "6", "0", ":", "5", "9">>
  /\ dialog.open /\ dialog.warned /\ ~dialog.accepted


\* the step in which a recalculated week was applied: recalculate_week is
\* the only caller of log_api_call, and calls it after every apply
WeekApplied == Len(api_calls') = Len(api_calls) + 1

\* the plan's current-version workouts on date d, among rows
CurrentOn(rows, pid, d) ==
  { w \in rows : w.plan_id = pid /\ w.date = d /\ w.is_current_version = 1 }

\* C11: after a recalculated week is applied, every date of week_dates
\* holds, for the plan, exactly one current workout carrying the
\* suggestion's type, distance, intensity and description when the
\* suggestion for that date is not 'rest', and none when it is 'rest'; no
\* workout the plan had on those dates before is left, completed or not.
C11_AppliedWeekReplaces ==
  [][WeekApplied =>
       LET pid == CurrentPlan.id
           week_dates == call'.week_dates
           suggestions == call'.suggestions
       IN  \A i \in 1..Len(week_dates) :
             LET d == week_dates[i]
                 for_d == { j \in 1..Len(suggestions) : suggestions[j].date = d }
                 now == CurrentOn(workouts', pid, d)
                 before == { w \in workouts : w.plan_id = pid /\ w.date = d }
             IN  /\ Cardinality(for_d) = 1
                 /\ \A j \in for_d :
                      LET s == suggestions[j]
                      IN  IF s.workout_type = "rest" THEN now = {}
                          ELSE /\ Cardinality(now) = 1
                               /\ \A w \in now :
                                    /\ w.workout_type = s.workout_type
                                    /\ w.planned_distance = s.planned_distance
                                    /\ w.planned_intensity = s.planned_intensity
                                    /\ w.description = s.description
                 /\ \A b \in before : ~ \E w \in workouts' : w.id = b.id]_vars

\* a week was applied over a completed workout of the plan (the one the
\* planner saw as history, now gone) while the other plan's workout of the
\* same Sunday is still there
C11_Witness ==
  /\ call.made
  /\ call.recent_workouts # <<>>
  /\ \A i \in 1..Len(call.recent_workouts) :
       ~ \E w \in workouts : w.id = call.recent_workouts[i].id
  /\ \E w \in workouts : w.plan_id = CurrentPlan.id /\ w.modified_by = "ai_recalc"
  /\ \E w \in workouts : w.plan_id # CurrentPlan.id /\ w.date = <<2024, 1, 7>>

\* C13: a recalculation the heuristic served, directly or by fallback, adds
\* no row to the api_calls log; only applied remote plan_week calls do.
C13_OnlyRemoteLogged ==
  [][Len(api_calls') > Len(api_calls) => call'.served_by = "remote"]_vars


\* C20: for seven consecutive dates in any weekday alignment, with
\* max_days_per_week = 1 and long_run_day = 'Sunday', the heuristic output
\* has the Sunday as its only non-rest suggestion; the other six are 'rest'
\* with null planned_distance and null planned_intensity.
C20_OnlySundayRuns ==
  ( /\ call.made
    /\ call.served_by = "heuristic"
    /\ call.week_dates \in ConsecutiveWeeks
    /\ Len(call.week_dates) = Len(weekday_names)
    /\ call.ctx.max_days_per_week = 1
    /\ call.ctx.long_run_day = StrV("Sunday") )
  => /\ call.error = ""
     /\ Len(call.suggestions) = Len(call.week_dates)
     /\ \A i \in 1..Len(call.suggestions) :
          LET s == call.suggestions[i]
          IN  IF weekday_names[WeekdayIndex(call.week_dates[i]) + 1] = "sunday"
                THEN s.workout_type # "rest"
              ELSE /\ s.workout_type = "rest"
                   /\ s.planned_distance = NoneV
                   /\ s.planned_intensity = NoneV


\* C14: of two heuristic plan_week calls with the same constraints and no
\* history whose dates differ by seven days, the later week has a long run
\* wherever the earlier one has, and its planned_distance is greater than or
\* equal to the earlier one's.
C14_LaterLongRunNotShorter ==
  ( /\ pinned.made /\ call.made
    /\ pinned.served_by = "heuristic" /\ call.served_by = "heuristic"
    /\ call.ctx = pinned.ctx
    /\ pinned.recent_workouts = <<>> /\ call.recent_workouts = <<>>
    /\ call.week_dates = ShiftedWeek(pinned.week_dates) )
  => /\ Len(call.suggestions) = Len(pinned.suggestions)
     /\ \A i \in 1..Len(pinned.suggestions) :
          pinned.suggestions[i].workout_type = "long"
            => /\ call.suggestions[i].workout_type = "long"
               /\ call.suggestions[i].planned_distance.num
                    >= pinned.suggestions[i].planned_distance.num

\* both weeks were planned, a full week and the week after it, and both
\* have their long run
C14_Witness ==
  /\ pinned.made /\ call.made
  /\ Len(pinned.week_dates) = Len(weekday_names)
  /\ call.week_dates = ShiftedWeek(pinned.week_dates)
  /\ \E i \in 1..Len(pinned.suggestions) :
       /\ pinned.suggestions[i].workout_type = "long"
       /\ call.suggestions[i].workout_type = "long"
       /\ call.suggestions[i].date = AddDays(pinned.suggestions[i].date, 7)


\* the long-run base mileage of the goal type 'half', in tenths of a mile
base_long_half == 100

\* C15: no planned_distance the heuristic emits exceeds its role's
\* goal-type base mileage times (1 + long_run_cap), whatever the history and
\* the week; stated for the long run of a 'half' plan, whose base is 10.0.
C15_CapCeiling ==
  ( /\ call.made
    /\ call.served_by = "heuristic"
    /\ call.error = ""
    /\ call.ctx.goal_type = "half" )
  => \A i \in 1..Len(call.suggestions) :
       call.suggestions[i].workout_type = "long"
         => call.suggestions[i].planned_distance.num * 100
              <= base_long_half * (100 + call.ctx.long_run_cap)


\* the number of suggestions of a type
CountOfType(suggestions, type) ==
  Cardinality({ i \in 1..Len(suggestions) : suggestions[i].workout_type = type })

\* the plan_week call was made on the week Monday 2024-01-01 .. Sunday
\* 2024-01-07
MondayToSunday(c) ==
  /\ c.made
  /\ c.week_dates = DateRange(1, 7)

\* C21: for a Monday..Sunday week with max_days_per_week = 5, long_run_day
\* = 'Sunday' and no history, the heuristic gives 'long' to Sunday,
\* 'intervals' to Tuesday, 'tempo' to Thursday, 'easy' to exactly one other
\* day and 'rest' to the remaining days.
C21_FullWeekPattern ==
  ( /\ MondayToSunday(call)
    /\ call.served_by = "heuristic"
    /\ call.ctx.max_days_per_week = 5
    /\ call.ctx.long_run_day = StrV("Sunday")
    /\ call.recent_workouts = <<>> )
  => /\ call.error = ""
     /\ Len(call.suggestions) = Len(weekday_names)
     /\ call.suggestions[7].workout_type = "long"
     /\ call.suggestions[2].workout_type = "intervals"
     /\ call.suggestions[4].workout_type = "tempo"
     /\ \E e \in {1, 3, 5, 6} :
          /\ call.suggestions[e].workout_type = "easy"
          /\ \A r \in {1, 3, 5, 6} \ {e} : call.suggestions[r].workout_type = "rest"

\* the week 2024-01-01 .. 2024-01-07 was planned for five days with the
\* long run on Sunday and no history, and the Saturday got the easy run
C21_Witness ==
  /\ MondayToSunday(call)
  /\ call.ctx.max_days_per_week = 5
  /\ call.ctx.long_run_day = StrV("Sunday")
  /\ call.recent_workouts = <<>>
  /\ call.suggestions[6].workout_type = "easy"
  /\ CountOfType(call.suggestions, "rest") = 3


\* C22: for goal_type 'half', no history and the week that starts on the
\* plan's start_date (2024-01-01, week 0), the long run the heuristic emits
\* has the half-marathon long base of 10.0 miles as its planned_distance.
C22_LongBaseFromGoal ==
  ( /\ call.made
    /\ call.served_by = "heuristic"
    /\ call.error = ""
    /\ call.ctx.goal_type = "half"
    /\ call.recent_workouts = <<>>
    /\ call.week_dates # <<>>
    /\ Head(call.week_dates) = WeekDate(1) )
  => \A i \in 1..Len(call.suggestions) :
       call.suggestions[i].workout_type = "long"
         => call.suggestions[i].planned_distance = NumV(base_long_half)


\* the distance the claim takes from a history entry: actual_distance when
\* the entry has a numeric one, planned_distance otherwise
ClaimedDistance(r) ==
  IF IsNumber(DictGet(r, "actual_distance")) THEN DictGet(r, "actual_distance")
  ELSE DictGet(r, "planned_distance")

\* the claimed baseline as sum and count: the completed entries with a
\* numeric distance
RECURSIVE ClaimedDistances(_)
ClaimedDistances(recent_workouts) ==
  IF recent_workouts = <<>> THEN [s |-> 0, n |-> 0]
  ELSE LET rest == ClaimedDistances(Tail(recent_workouts))
           r == Head(recent_workouts)
           d == ClaimedDistance(r)
       IN  IF Truthy(DictGet(r, "completed")) /\ IsNumber(d)
             THEN [s |-> rest.s + d.num, n |-> rest.n + 1]
           ELSE rest

\* C23: the heuristic's baseline avg is the arithmetic mean, over the
\* completed history entries with a numeric distance, of actual_distance
\* when the entry has one and planned_distance otherwise, whatever the order
\* of the entries, and the default when no entry is usable: the week comes
\* out as the loop gives it for that mean.
C23_BaselineIsMean ==
  (call.made /\ call.served_by = "heuristic") =>
    LET ds == ClaimedDistances(call.recent_workouts)
        avg == IF ds.n > 0 THEN ds ELSE Avg(<<>>)
        h == HeuristicLoop(call.ctx, avg, call.week_dates, 1, 0, <<>>)
    IN  /\ call.error = h.error
        /\ call.suggestions = h.suggestions


\* the weekday index (0 = Monday) of the plan's long-run day
LongDayIndex(ctx) ==
  CHOOSE k \in 0..(Len(weekday_names) - 1) : weekday_names[k + 1] = LongDay(ctx)

\* C24: whatever the long-run day L, a training day other than the long run
\* is 'tempo' on weekday (L - 3) mod 7, 'intervals' on weekday (L - 1) mod
\* 7, and 'easy' on any other weekday.
C24_RolesByOffset ==
  (call.made /\ call.served_by = "heuristic" /\ call.error = "") =>
    \A i \in 1..Len(call.suggestions) :
      LET s == call.suggestions[i]
          L == LongDayIndex(call.ctx)
          wd == WeekdayIndex(s.date)
      IN  s.workout_type \notin {"rest", "long"}
            => s.workout_type =
                 IF wd = (L + 4) % 7 THEN "tempo"
                 ELSE IF wd = (L + 6) % 7 THEN "intervals"
                 ELSE "easy"


\* C25: in every heuristic output each date has its suggestion; a suggestion
\* is 'rest' if and only if its planned_distance and planned_intensity are
\* null, and every other suggestion carries a positive planned_distance (in
\* tenths of a mile, the one decimal place it is rounded to).
C25_RestIffNoDistance ==
  (call.made /\ call.served_by = "heuristic" /\ call.error = "") =>
    /\ Len(call.suggestions) = Len(call.week_dates)
    /\ \A i \in 1..Len(call.suggestions) :
         LET s == call.suggestions[i]
         IN  /\ s.date = call.week_dates[i]
             /\ s.workout_type = "rest"
                  <=> (s.planned_distance = NoneV /\ s.planned_intensity = NoneV)
             /\ s.workout_type # "rest"
                  => IsNumber(s.planned_distance) /\ s.planned_distance.num > 0


\* the fields of a workout that say what was planned
SamePlanned(a, b) ==
  /\ a.workout_type = b.workout_type
  /\ a.planned_distance = b.planned_distance
  /\ a.planned_intensity = b.planned_intensity
  /\ a.description = b.description
  /\ a.notes = b.notes

\* what the claim says of rescheduling the workout w with the dialog's result
RescheduledAsClaimed(w, result) ==
  IF result = Cancelled THEN workouts' = workouts
  ELSE IF result.mode = "move"
    THEN /\ Cardinality(workouts') = Cardinality(workouts)
         /\ workouts' = (workouts \ {w}) \cup
                          {[w EXCEPT !.date = result.date, !.modified_by = "reschedule"]}
  ELSE /\ workouts \subseteq workouts'
       /\ Cardinality(workouts' \ workouts) = 1
       /\ \A n \in workouts' \ workouts :
            /\ n.date = result.date
            /\ n.plan_id = w.plan_id
            /\ n.completed = 0
            /\ n.actual_distance = NoneV /\ n.actual_time_seconds = NoneV
            /\ SamePlanned(n, w)
            /\ \A o \in workouts : o.id # n.id

\* C26: rescheduling with 'move' keeps the number of workouts and changes
\* only the date and modified_by of the chosen workout; 'copy' adds exactly
\* one new workout, not completed, on the new date with the same planned
\* fields and leaves the original alone; a cancelled dialog changes nothing.
C26_MoveCopyFrame ==
  [][\A date_str \in {<<2024, 1, 7>>, <<2024, 1, 9>>}, result \in RescheduleResults :
       MoveOrCopyWorkout(CurrentPlan, date_str, result)
         => RescheduledAsClaimed(FirstOfDay(workouts, CurrentPlan.id, date_str), result)]_vars

\* a completed workout was moved to the Tuesday and a copy of it was left
\* on the Sunday, not completed
C26_Witness ==
  /\ \E w \in workouts :
       /\ w.date = <<2024, 1, 9>> /\ w.modified_by = "reschedule" /\ w.completed = 1
  /\ \E n \in workouts :
       /\ n.date = <<2024, 1, 7>> /\ n.modified_by = "reschedule-copy" /\ n.completed = 0


\* the dates of a week as a set
DatesOf(week_dates) == { week_dates[i] : i \in 1..Len(week_dates) }

\* C27: a recalculation whose preview is cancelled leaves the database as
\* it was (no workout deleted or created, no api_calls row); an accepted one
\* changes no workout dated outside week_dates or belonging to another
\* plan, and creates workouts only for the plan within week_dates.
C27_RecalcFrame ==
  /\ [][\A today \in Todays :
          ( /\ call'.made
            /\ RecalculateWeek(CurrentPlan, Head(call'.week_dates), today, FALSE,
                               call'.outcome) )
            => database' = database]_vars
  /\ [][WeekApplied =>
          LET inside(w) == w.plan_id = CurrentPlan.id /\ w.date \in DatesOf(call'.week_dates)
          IN  /\ \A w \in workouts : ~inside(w) => w \in workouts'
              /\ \A w \in workouts' \ workouts : inside(w)]_vars

\* a week was applied after a workout of the week before and a workout of
\* the other plan had been added, and both are still there
C27_Witness ==
  \E r \in workouts :
    /\ r.modified_by = "ai_recalc"
    /\ \E a \in workouts :
         a.id < r.id /\ a.plan_id = CurrentPlan.id /\ a.date = <<2024, 1, 2>>
    /\ \E b \in workouts :
         b.id < r.id /\ b.plan_id # CurrentPlan.id /\ b.date = <<2024, 1, 7>>


\* C28: in the plan wizard the page index stays within 0..5 whatever Next
\* and Back do; Back is enabled exactly when the index is above 0; Create
\* Plan is visible and Next hidden exactly on the last page; next_page on
\* the last page and previous_page on the first change nothing; and a plan
\* is created only from the review page.
C28_WizardNavigation ==
  /\ [](dialog.open =>
          /\ dialog.stack_index \in 0..5
          /\ dialog.back_enabled <=> dialog.stack_index > 0
          /\ ~dialog.create_hidden <=> dialog.stack_index = 5
          /\ dialog.next_hidden <=> dialog.stack_index = 5)
  /\ [][(NextPage /\ dialog.stack_index = 5) => dialog' = dialog]_vars
  /\ [][(PreviousPage /\ dialog.stack_index = 0) => dialog' = dialog]_vars
  /\ [][(dialog'.accepted /\ ~dialog.accepted)
          => wizard_pages[dialog.stack_index + 1] = "page_review"]_vars

\* the wizard went to the review page, back to the schedule page where the
\* days were changed, forward again, and the plan was created
C28_Witness ==
  /\ ~dialog.open
  /\ dialog.accepted
  /\ dialog.stack_index = 5
  /\ dialog.plan_data.max_days_per_week = 3
  /\ dialog.plan_data.goal_type = "half"


\* C29: right after SettingsDialog._save with engine 'OpenAI' and key K,
\* get_openai_settings() has use_openai true and api_key K, and get_api_key()
\* with no environment value returns K; right after a save with engine
\* 'Heuristic', get_openai_settings() has use_openai false.
C29_SettingsRoundTrip ==
  ret.op = "_save" =>
    IF ret.engine = "OpenAI"
    THEN /\ GetOpenaiSettingsOf(app_settings).use_openai
         /\ GetOpenaiSettingsOf(app_settings).api_key = ret.key
         /\ environ = NoText => GetApiKeyOf(environ, app_settings) = Text(ret.key)
    ELSE ~GetOpenaiSettingsOf(app_settings).use_openai


\* the fields of a template row other than its id and name
TemplateContent(t) ==
  <<t.workout_type, t.planned_distance, t.planned_intensity, t.description, t.notes>>

\* C30: a rename that went through leaves the number of templates as it was,
\* makes the renamed template's content reachable under the new name, and
\* leaves every other template as it was, also when the new name is the name
\* of another template.
C30_RenameExactlyOne ==
  [][(ret'.op = "_rename" /\ ret'.renamed) =>
       LET tpl == ret'.tpl
       IN  /\ Cardinality(workout_templates') = Cardinality(workout_templates)
           /\ \E t \in workout_templates' :
                t.name = ret'.new_name /\ TemplateContent(t) = TemplateContent(tpl)
           /\ \A t \in workout_templates : t.id # tpl.id => t \in workout_templates']_vars

====
